---- MODULE Spec2Model ----
(***************************************************************************)
(* Monthly gap-filling satellite data collector                            *)
(* (src/services/satellite_collector.py) as a state machine.               *)
(*                                                                         *)
(* Dates are proleptic Gregorian days, as in Python's datetime; month keys *)
(* are the 7-character strings strftime('%Y-%m') produces, held as the     *)
(* sequence of their character codes so that the store's MAX() compares    *)
(* them the way BigQuery compares strings.                                 *)
(***************************************************************************)
EXTENDS Integers, Sequences, FiniteSets, TLC

VARIABLES
    clock,      \* datetime.now(), as a day ordinal
    store,      \* rows of the table raw_satellite_metrics, in append order
    imagery,    \* what the imagery backend holds, per <<location, window>> asked for so far
    pc,         \* position of the collector: "idle", "aggregate" (in the month loop), "done"
    run,        \* the working set of the current (or last finished) collect run
    prev,       \* the working set of the run before it
    nruns,      \* collect runs started so far
    nticks,     \* clock advances so far
    nfaults,    \* failed calls of the store, the imagery backend or ee so far
    mm,         \* the month-enumeration loop of _get_missing_months, stepwise
    agg,        \* one call of _get_monthly_averaged_data on its own: input and result
    qa,         \* calls of _assess_monthly_data_quality on their own: inputs and results
    rid,        \* the region id derived for two coordinate pairs, on its own
    par,        \* collect runs of several regions in progress at once: one working set each
    pipe,       \* IntegrationPipeline.analyze_user_location: its position and its result
    bot         \* the chat bot: a user's entry of user_sessions and the handlers in progress

vars == <<clock, store, imagery, pc, run, prev, nruns, nticks, nfaults, mm, agg, qa,
          rid, par, pipe, bot>>

(***************************************************************************)
(* Bounds of the model.                                                    *)
(***************************************************************************)
\* collect runs per behaviour
MaxRuns == 2
\* clock advances per behaviour
MaxTicks == 1
\* failing external calls (latest-month query, ee.Initialize, image search,
\* reducer, load job) per behaviour
MaxFaults == 1
\* the month-enumeration inputs are drawn from the years 2023 .. 2023 + YearSpan
YearSpan == 2
\* personal locations a user of the bot holds at a time
MaxLocations == 1

(***************************************************************************)
(* datetime / calendar / timedelta                                         *)
(***************************************************************************)
IsLeap(y) == (y % 4 = 0) /\ ((y % 100 # 0) \/ (y % 400 = 0))

\* month lengths without leap years
MonthRangeNoLeap(y, m) ==
    IF m = 2 THEN 28
    ELSE IF m \in {4, 6, 9, 11} THEN 30 ELSE 31

\* calendar.monthrange(year, month)[1]
MonthRange(y, m) ==
    IF m = 2 THEN (IF IsLeap(y) THEN 29 ELSE 28)
    ELSE IF m \in {4, 6, 9, 11} THEN 30 ELSE 31

Date(y, m, d) == [year |-> y, month |-> m, day |-> d]

\* date.toordinal(), up to a fixed offset
ToOrdinal(dt) ==
    LET y   == IF dt.month <= 2 THEN dt.year - 1 ELSE dt.year
        era == y \div 400
        yoe == y - era * 400
        mp  == IF dt.month > 2 THEN dt.month - 3 ELSE dt.month + 9
        doy == (153 * mp + 2) \div 5 + dt.day - 1
        doe == yoe * 365 + yoe \div 4 - yoe \div 100 + doy
    IN  era * 146097 + doe

\* date.fromordinal()
FromOrdinal(z) ==
    LET era == z \div 146097
        doe == z - era * 146097
        yoe == (doe - doe \div 1460 + doe \div 36524 - doe \div 146096) \div 365
        doy == doe - (365 * yoe + yoe \div 4 - yoe \div 100)
        mp  == (5 * doy + 2) \div 153
        d   == doy - (153 * mp + 2) \div 5 + 1
        m   == IF mp < 10 THEN mp + 3 ELSE mp - 9
        y   == yoe + era * 400 + (IF m <= 2 THEN 1 ELSE 0)
    IN  Date(y, m, d)

\* dt - timedelta(days=n)
MinusDays(dt, n) == FromOrdinal(ToOrdinal(dt) - n)

\* dt.replace(day=d)
ReplaceDay(dt, d) == [dt EXCEPT !.day = d]

\* a comparison that looks at the month and the day and forgets the year
MonthOnlyLess(a, b) ==
    \/ a.month < b.month
    \/ a.month = b.month /\ a.day < b.day

\* dt1 < dt2, dt1 <= dt2 on datetimes
DateLess(a, b) ==
    \/ a.year < b.year
    \/ a.year = b.year /\ a.month < b.month
    \/ a.year = b.year /\ a.month = b.month /\ a.day < b.day

DateLeq(a, b) == a = b \/ DateLess(a, b)

(***************************************************************************)
(* strftime('%Y-%m') and strptime(.., '%Y-%m') on character codes          *)
(***************************************************************************)
Chr0 == 48
ChrDash == 45

Digit(n) == Chr0 + n

\* dt.strftime('%Y-%m'): four year digits, '-', two month digits
StrfYm(dt) ==
    << Digit(dt.year \div 1000), Digit((dt.year \div 100) % 10),
       Digit((dt.year \div 10) % 10), Digit(dt.year % 10),
       ChrDash,
       Digit(dt.month \div 10), Digit(dt.month % 10) >>

IsDigit(c) == c >= Chr0 /\ c <= Chr0 + 9

\* whether datetime.strptime(s, '%Y-%m') parses s (else it raises ValueError)
StrpOk(s) ==
    /\ Len(s) = 7
    /\ \A i \in {1, 2, 3, 4, 6, 7} : IsDigit(s[i])
    /\ s[5] = ChrDash
    /\ LET m == (s[6] - Chr0) * 10 + (s[7] - Chr0) IN m >= 1 /\ m <= 12

\* datetime.strptime(s, '%Y-%m'): day 1 of the month
StrpYm(s) ==
    Date((s[1] - Chr0) * 1000 + (s[2] - Chr0) * 100 + (s[3] - Chr0) * 10 + (s[4] - Chr0),
         (s[6] - Chr0) * 10 + (s[7] - Chr0),
         1)

\* s < t on strings (code point order)
RECURSIVE StrLess(_, _)
StrLess(s, t) ==
    IF t = <<>> THEN FALSE
    ELSE IF s = <<>> THEN TRUE
    ELSE IF Head(s) # Head(t) THEN Head(s) < Head(t)
    ELSE StrLess(Tail(s), Tail(t))

(***************************************************************************)
(* _get_missing_months                                                     *)
(***************************************************************************)
\* the body of the while loop: move check_date to the next month
NextMonth(check_date) ==
    IF check_date.month = 12
    THEN [check_date EXCEPT !.year = check_date.year + 1, !.month = 1]
    ELSE [check_date EXCEPT !.month = check_date.month + 1]

\* a loop condition that lets the loop run one month too far
LoopCondLeq(check_date, current_date) == DateLeq(check_date, current_date)

\* while check_date < current_date
LoopCond(check_date, current_date) == DateLess(check_date, current_date)

\* the whole loop: step, append, until the condition fails
RECURSIVE MissingLoop(_, _, _)
MissingLoop(check_date, current_date, missing_months) ==
    IF LoopCond(check_date, current_date)
    THEN LET nxt == NextMonth(check_date)
         IN  MissingLoop(nxt, current_date, Append(missing_months, StrfYm(nxt)))
    ELSE missing_months

\* an enumeration that starts at latest_month itself instead of its successor
MissingMonthsFromLatest(latest_month, current_month) ==
    IF ~(StrpOk(latest_month) /\ StrpOk(current_month))
    THEN <<>>
    ELSE LET latest_date  == StrpYm(latest_month)
             current_date == StrpYm(current_month)
         IN  IF DateLeq(current_date, latest_date)
             THEN <<>>
             ELSE MissingLoop(latest_date, current_date, <<StrfYm(latest_date)>>)

\* the loop run through the current month: while check_date <= current_date
RECURSIVE MissingLoopThrough(_, _, _)
MissingLoopThrough(check_date, current_date, missing_months) ==
    IF DateLeq(check_date, current_date)
    THEN LET nxt == NextMonth(check_date)
         IN  MissingLoopThrough(nxt, current_date, Append(missing_months, StrfYm(nxt)))
    ELSE missing_months

\* an enumeration that has no early return and runs through the current month
MissingMonthsThroughCurrent(latest_month, current_month) ==
    IF ~(StrpOk(latest_month) /\ StrpOk(current_month))
    THEN <<>>
    ELSE MissingLoopThrough(StrpYm(latest_month), StrpYm(current_month), <<>>)

\* _get_missing_months(latest_month, current_month)
_get_missing_months(latest_month, current_month) ==
    IF ~(StrpOk(latest_month) /\ StrpOk(current_month))
    THEN <<>>                                   \* except Exception: return []
    ELSE LET latest_date  == StrpYm(latest_month)
             current_date == StrpYm(current_month)
         IN  IF DateLeq(current_date, latest_date)
             THEN <<>>
             ELSE MissingLoop(latest_date, current_date, <<>>)

(***************************************************************************)
(* Locations and the precision region id                                   *)
(***************************************************************************)
\* coordinates in units of 0.0001 degree
Locations ==
    { [name |-> "Paris", lat |-> 488566, lon |-> 23522] }

NoLocation == [name |-> "", lat |-> 0, lon |-> 0]

\* f"{x:.3f}" of a coordinate: the sign the string starts with ('-' for every
\* negative x, also when its digits are 0.000) and its digits, as the number
\* n of thousandths they spell: the nearest multiple of 0.001.  (Halfway
\* between two multiples Python goes by the binary float, which lies on one
\* side; the coordinates drawn below are never halfway.)
Fmt3(x) ==
    LET a == IF x < 0 THEN 0 - x ELSE x
        q == a \div 10
        r == a % 10
        n == IF r > 5 \/ (r = 5 /\ q % 2 = 1) THEN q + 1 ELSE q
    IN  [neg |-> x < 0, n |-> n]

\* region_id = f"{latitude:.3f}_{longitude:.3f}"
RegionId(latitude, longitude) == <<Fmt3(latitude), Fmt3(longitude)>>

(***************************************************************************)
(* _assess_monthly_data_quality                                            *)
(*                                                                         *)
(* Numbers are fixed-point: a metric (NDVI) value or deviation is held in  *)
(* units of 0.0001, a cloud cover in units of 0.01 %.  The thresholds of   *)
(* the function are whole numbers of these units, so comparing the floor   *)
(* of a real value against them decides as comparing the value itself.     *)
(***************************************************************************)
\* p percent of cloud cover
Pct(p) == p * 100
\* h hundredths of a metric unit (0.05 is Hundredths(5))
Hundredths(h) == h * 100

\* the image count factor with its first branch taken from one image on
CountPointsFromOne(image_count) ==
    IF image_count >= 1 THEN 40
    ELSE IF image_count >= 2 THEN 25
    ELSE 10

\* the image count factor with the points of its first two branches exchanged
CountPointsExchanged(image_count) ==
    IF image_count >= 3 THEN 25
    ELSE IF image_count >= 2 THEN 40
    ELSE 10

\* the image count factor
CountPoints(image_count) ==
    IF image_count >= 3 THEN 40
    ELSE IF image_count >= 2 THEN 25
    ELSE 10

\* the cloud cover factor, with its first threshold compared inclusively
CloudPointsInclusive(avg_cloud_cover) ==
    IF avg_cloud_cover <= Pct(10) THEN 40
    ELSE IF avg_cloud_cover < Pct(20) THEN 25
    ELSE 10

\* the cloud cover factor
CloudPoints(avg_cloud_cover) ==
    IF avg_cloud_cover < Pct(10) THEN 40
    ELSE IF avg_cloud_cover < Pct(20) THEN 25
    ELSE 10

\* the consistency factor
StdPoints(std_dev) ==
    IF std_dev < Hundredths(5) THEN 20
    ELSE IF std_dev < Hundredths(10) THEN 10
    ELSE 5

\* quality_score when the rating is determined
QualityScore(image_count, avg_cloud_cover, std_dev) ==
    LET s0 == 0
        s1 == s0 + CountPoints(image_count)
        s2 == s1 + CloudPoints(avg_cloud_cover)
        s3 == s2 + StdPoints(std_dev)
    IN  s3

\* the rating of a quality_score
Rating(quality_score) ==
    IF quality_score >= 80 THEN "excellent"
    ELSE IF quality_score >= 60 THEN "good"
    ELSE IF quality_score >= 40 THEN "fair"
    ELSE "poor"

_assess_monthly_data_quality(image_count, avg_cloud_cover, std_dev) ==
    Rating(QualityScore(image_count, avg_cloud_cover, std_dev))

(***************************************************************************)
(* The imagery backend's answers                                           *)
(***************************************************************************)
\* one feature of collection.getInfo(): nd is the NDVI mean the reducer gives
\* (units of 0.0001), cloud its CLOUDY_PIXEL_PERCENTAGE (units of 0.01 %), and fault what goes
\* wrong when the image is processed: "ok" nothing, "nd_none" the reducer
\* returns no 'nd', "reduce_error" the reducer call raises, "no_time" the
\* properties hold no system:time_start; day is the day of the window's month
\* it was taken on
Image(id, day, nd, cloud, fault) ==
    [id |-> id, day |-> day, nd |-> nd, cloud |-> cloud, fault |-> fault]

\* the members of a set of numbers, ascending
RECURSIVE Ascending(_)
Ascending(S) ==
    IF S = {} THEN <<>>
    ELSE LET m == CHOOSE x \in S : \A y \in S : x <= y
         IN  <<m>> \o Ascending(S \ {m})

\* max_images: the most features one image search returns
MaxImages == 3

\* what the archive can hold for one window of one location (at most
\* max_images features, lowest cloud cover first): nothing, or a good image
ArchiveChoices ==
    { <<>>,
      <<Image(1, 10, 6200, Pct(5), "ok")>> }

\* what can go wrong in one call of the aggregator: the image search raises,
\* or every image's reducer call raises or returns no 'nd'
CallFaults == {"search_error", "reduce_error", "nd_none"}

\* the answer of one call of collection.getInfo() and of the per-image calls
\* that follow it, given the archive's features and what goes wrong this time
Answer(features, fault) ==
    [ok       |-> fault # "search_error",
     features |-> IF fault \in {"reduce_error", "nd_none"}
                  THEN [i \in 1..Len(features) |-> [features[i] EXCEPT !.fault = fault]]
                  ELSE features]

\* whether one more external call may fail
MoreFaults == nfaults < MaxFaults

\* the outcomes (success or not) open to the next external call
CallOutcomes == {TRUE} \cup (IF MoreFaults THEN {FALSE} ELSE {})

Failed(ok) == IF ok THEN 0 ELSE 1

(***************************************************************************)
(* _get_monthly_averaged_data                                              *)
(***************************************************************************)
EmptyLists ==
    [ndvi_values |-> <<>>, cloud_percentages |-> <<>>, image_dates |-> <<>>, image_ids |-> <<>>]

\* a loop body that takes 0 for the metric the reducer did not return:
\* ndvi_stats.get('nd', 0)
ImageStepDefaultsToZero(img, acc) ==
    CASE img.fault = "reduce_error" -> acc
      [] img.fault = "no_time"      ->
            [acc EXCEPT !.ndvi_values = Append(@, img.nd),
                        !.cloud_percentages = Append(@, img.cloud)]
      [] OTHER ->
            [ndvi_values       |-> Append(acc.ndvi_values,
                                          IF img.fault = "nd_none" THEN 0 ELSE img.nd),
             cloud_percentages |-> Append(acc.cloud_percentages, img.cloud),
             image_dates       |-> Append(acc.image_dates, img.day),
             image_ids         |-> Append(acc.image_ids, img.id)]

\* the body of the loop over images_list, for one img_info: the lists after it
ImageStep(img, acc) ==
    CASE img.fault = "reduce_error" -> acc              \* except Exception: continue
      [] img.fault = "nd_none"      -> acc              \* ndvi_value is None
      [] img.fault = "no_time"      ->                  \* KeyError after two appends
            [acc EXCEPT !.ndvi_values = Append(@, img.nd),
                        !.cloud_percentages = Append(@, img.cloud)]
      [] OTHER ->
            [ndvi_values       |-> Append(acc.ndvi_values, img.nd),
             cloud_percentages |-> Append(acc.cloud_percentages, img.cloud),
             image_dates       |-> Append(acc.image_dates, img.day),
             image_ids         |-> Append(acc.image_ids, img.id)]

\* the loop over images_list when the first failing image ends it
RECURSIVE ImageLoopEndsAtFailure(_, _)
ImageLoopEndsAtFailure(images_list, acc) ==
    IF images_list = <<>> THEN acc
    ELSE IF Head(images_list).fault \in {"reduce_error", "nd_none"} THEN acc
    ELSE ImageLoopEndsAtFailure(Tail(images_list), ImageStep(Head(images_list), acc))

\* for i, img_info in enumerate(images_list): try ... except: continue
RECURSIVE ImageLoop(_, _)
ImageLoop(images_list, acc) ==
    IF images_list = <<>> THEN acc
    ELSE ImageLoop(Tail(images_list), ImageStep(Head(images_list), acc))

\* if not ndvi_values
NoNdviValues(lists) == lists.ndvi_values = <<>>

\* sum(values)
RECURSIVE SeqSum(_)
SeqSum(values) == IF values = <<>> THEN 0 ELSE Head(values) + SeqSum(Tail(values))

\* sum(x * x for x in values)
RECURSIVE SeqSumSq(_)
SeqSumSq(values) ==
    IF values = <<>> THEN 0 ELSE Head(values) * Head(values) + SeqSumSq(Tail(values))

\* min(values), max(values)
SeqMin(values) ==
    CHOOSE x \in {values[i] : i \in 1..Len(values)} : \A i \in 1..Len(values) : x <= values[i]
SeqMax(values) ==
    CHOOSE x \in {values[i] : i \in 1..Len(values)} : \A i \in 1..Len(values) : x >= values[i]

\* round() of num / den to a whole unit.  A value that lies exactly between
\* two units in decimal has a binary float on either side of it, so that
\* round() may go either way: tie = 0 is down, tie = 1 is up.
RoundDiv(num, den, tie) ==
    LET q == num \div den
        r == num - q * den
    IN  IF 2 * r < den THEN q
        ELSE IF 2 * r > den THEN q + 1
        ELSE q + tie

\* the whole part of the square root of x, for x < (hi + 1)^2
Isqrt(x, hi) == CHOOSE k \in 0..hi : k * k <= x /\ (k + 1) * (k + 1) > x

\* variance = sum((x - avg_ndvi) ** 2 for x in ndvi_values) / len(ndvi_values)
\* is VarianceNum / VarianceDen: with n values of sum S,
\* sum((x - S/n)^2) = (n * sum(x^2) - S^2) / n
VarianceNum(ndvi_values) ==
    Len(ndvi_values) * SeqSumSq(ndvi_values) - SeqSum(ndvi_values) * SeqSum(ndvi_values)

\* the variance with the divisor of a sample: n * (n - 1)
VarianceDenSample(ndvi_values) == Len(ndvi_values) * (Len(ndvi_values) - 1)

VarianceDen(ndvi_values) == Len(ndvi_values) * Len(ndvi_values)

\* a bound of the standard deviation, in whole units
SpreadBound(ndvi_values) == 2 * (SeqMax(ndvi_values) - SeqMin(ndvi_values)) + 1

\* std_dev, down to a whole unit: variance ** 0.5, or 0.0 for a single value
StdDevFloor(ndvi_values) ==
    IF Len(ndvi_values) > 1
    THEN Isqrt(VarianceNum(ndvi_values) \div VarianceDen(ndvi_values),
               SpreadBound(ndvi_values))
    ELSE 0

\* round(std_dev, 4)
StdDevRounded(ndvi_values, tie) ==
    IF Len(ndvi_values) > 1
    THEN LET f    == StdDevFloor(ndvi_values)
             lhs  == 4 * VarianceNum(ndvi_values)
             half == (2 * f + 1) * (2 * f + 1) * VarianceDen(ndvi_values)
         IN  IF lhs < half THEN f
             ELSE IF lhs > half THEN f + 1
             ELSE f + tie
    ELSE 0

\* which way each round() of the record goes on a tie
Ties == [mean : {0, 1}, std : {0, 1}, cloud : {0, 1}]

\* _get_monthly_averaged_data(point, region, month_start, month_end, max_images)
\* on the backend's answer resp to collection.getInfo(); <<>> is None, <<r>> a record.
\* ndvi_* are in units of 0.0001 (round(x, 4)), cloud_percentage in units of
\* 0.1 % (round(x, 1))
_get_monthly_averaged_data(resp, month_start, month_end, ties) ==
    IF ~resp.ok THEN <<>>                               \* except Exception: return None
    ELSE IF resp.features = <<>> THEN <<>>              \* if not images_list: return None
    ELSE LET lists == ImageLoop(resp.features, EmptyLists)
             ndvi_values == lists.ndvi_values
             cloud_percentages == lists.cloud_percentages
             n == Len(ndvi_values)
             \* avg_cloud_cover and std_dev as handed on, down to a whole unit
             avg_cloud_cover == SeqSum(cloud_percentages) \div Len(cloud_percentages)
             std_dev == StdDevFloor(ndvi_values)
         IN  IF NoNdviValues(lists) THEN <<>>           \* if not ndvi_values: return None
             ELSE IF n = 0 THEN <<>>                    \* ZeroDivisionError: return None
             ELSE << [acquisition_month |-> StrfYm(month_start),
                      image_count       |-> n,
                      image_ids         |-> lists.image_ids,
                      image_dates       |-> lists.image_dates,
                      ndvi_mean         |-> RoundDiv(SeqSum(ndvi_values), n, ties.mean),
                      ndvi_std          |-> StdDevRounded(ndvi_values, ties.std),
                      ndvi_min          |-> SeqMin(ndvi_values),
                      ndvi_max          |-> SeqMax(ndvi_values),
                      cloud_percentage  |-> RoundDiv(SeqSum(cloud_percentages),
                                                     10 * Len(cloud_percentages), ties.cloud),
                      sensor            |-> "Sentinel-2",
                      data_quality      |-> _assess_monthly_data_quality(
                                                n, avg_cloud_cover, std_dev)] >>

(***************************************************************************)
(* The store: _get_latest_data_month and _upload_to_bigquery               *)
(***************************************************************************)
\* None, where the code holds a string or None
NoneStr == <<>>

Rows(table) == {table[i] : i \in 1..Len(table)}

\* a read without the WHERE clause: the maximum month of any region
MaxMonthAnyRegion(table, region_id) ==
    LET months == {r.acquisition_month : r \in Rows(table)}
    IN  IF months = {} THEN NoneStr
        ELSE CHOOSE s \in months : \A t \in months : ~StrLess(s, t)

\* a read that takes the month of the row appended last, not the maximum:
\* ORDER BY processing_date DESC LIMIT 1
LastRowMonth(table, region_id) ==
    LET own == {i \in 1..Len(table) : table[i].region_id = region_id}
    IN  IF own = {} THEN NoneStr
        ELSE table[CHOOSE i \in own : \A j \in own : j <= i].acquisition_month

\* a read that takes the minimum month: SELECT MIN(acquisition_month)
MinMonth(table, region_id) ==
    LET months == {r.acquisition_month : r \in {x \in Rows(table) : x.region_id = region_id}}
    IN  IF months = {} THEN NoneStr
        ELSE CHOOSE s \in months : \A t \in months : ~StrLess(t, s)

\* SELECT MAX(acquisition_month) ... WHERE region_id = @region_id
\*   AND acquisition_month IS NOT NULL; the one row's latest_month
MaxMonth(table, region_id) ==
    LET months == {r.acquisition_month : r \in {x \in Rows(table) : x.region_id = region_id}}
    IN  IF months = {} THEN NoneStr
        ELSE CHOOSE s \in months : \A t \in months : ~StrLess(s, t)

\* a read that hands back a placeholder string, not None, when the query raises
LatestMonthOrPlaceholder(table, region_id, query_ok) ==
    IF query_ok THEN MaxMonth(table, region_id) ELSE <<ChrDash>>

\* _get_latest_data_month(region_id): the query's answer, None when it raises
_get_latest_data_month(table, region_id, query_ok) ==
    IF query_ok THEN MaxMonth(table, region_id) ELSE NoneStr

\* a load job that takes one row: the first of data_rows
UploadFirstRowOnly(table, data_rows, load_ok) ==
    IF load_ok THEN [table |-> table \o SubSeq(data_rows, 1, 1), ret |-> TRUE]
    ELSE [table |-> table, ret |-> FALSE]

\* a load job that replaces the table: write_disposition="WRITE_TRUNCATE"
UploadTruncates(table, data_rows, load_ok) ==
    IF load_ok THEN [table |-> data_rows, ret |-> TRUE]
    ELSE [table |-> table, ret |-> FALSE]

\* a load that leaves its rows in the table when it reports failure
UploadKeepsRowsOnFailure(table, data_rows, load_ok) ==
    [table |-> table \o data_rows, ret |-> load_ok]

\* _upload_to_bigquery(data_rows): the table after the load job, and the
\* value returned
_upload_to_bigquery(table, data_rows, load_ok) ==
    IF load_ok THEN [table |-> table \o data_rows, ret |-> TRUE]
    ELSE [table |-> table, ret |-> FALSE]

(***************************************************************************)
(* The planned month windows                                               *)
(***************************************************************************)
\* for month_offset in range(6)
BootstrapMonths == 6
\* timedelta(days=30 * month_offset)
OffsetDays == 30

\* month_start, month_end of collect_satellite_data_monthly, per month_offset
BootstrapWindows(current_date) ==
    [k \in 1..BootstrapMonths |->
        LET target_month == MinusDays(current_date, OffsetDays * (k - 1))
            last_day     == MonthRange(target_month.year, target_month.month)
        IN  [month_start |-> ReplaceDay(target_month, 1),
             month_end   |-> ReplaceDay(target_month, last_day)]]

\* month_start, month_end of _fill_missing_months, per month_str
GapWindows(missing_months) ==
    [k \in 1..Len(missing_months) |->
        LET month_date == StrpYm(missing_months[k])
            last_day   == MonthRange(month_date.year, month_date.month)
        IN  [month_start |-> ReplaceDay(month_date, 1),
             month_end   |-> ReplaceDay(month_date, last_day)]]

(***************************************************************************)
(* The collect run                                                         *)
(***************************************************************************)
Now == FromOrdinal(clock)

NoRun ==
    [status |-> "none", loc |-> NoLocation, region_id |-> RegionId(0, 0), day |-> 0,
     query_ok |-> TRUE, latest_month |-> NoneStr, mode |-> "none", plan |-> <<>>, attempts |-> <<>>,
     monthly_data |-> <<>>, appended |-> <<>>, loads |-> 0, result |-> FALSE,
     outcome |-> "none"]

\* record.update({...}) of collect_satellite_data_monthly
BootstrapTag(record, r) ==
    [acquisition_month |-> record.acquisition_month,
     image_count       |-> record.image_count,
     image_ids         |-> record.image_ids,
     image_dates       |-> record.image_dates,
     ndvi_mean         |-> record.ndvi_mean,
     ndvi_std          |-> record.ndvi_std,
     ndvi_min          |-> record.ndvi_min,
     ndvi_max          |-> record.ndvi_max,
     cloud_percentage  |-> record.cloud_percentage,
     data_quality      |-> record.data_quality,
     sensor            |-> record.sensor,
     region_id         |-> r.region_id,
     region_name       |-> r.loc.name,
     latitude          |-> r.loc.lat,
     longitude         |-> r.loc.lon,
     processing_date   |-> clock]

\* month_data.update({...}) of _fill_missing_months
GapFillTag(record, r) ==
    [acquisition_month |-> record.acquisition_month,
     image_count       |-> record.image_count,
     image_ids         |-> record.image_ids,
     image_dates       |-> record.image_dates,
     ndvi_mean         |-> record.ndvi_mean,
     ndvi_std          |-> record.ndvi_std,
     ndvi_min          |-> record.ndvi_min,
     ndvi_max          |-> record.ndvi_max,
     cloud_percentage  |-> record.cloud_percentage,
     data_quality      |-> record.data_quality,
     sensor            |-> record.sensor,
     region_id         |-> r.region_id,
     region_name       |-> r.loc.name,
     latitude          |-> r.loc.lat,
     longitude         |-> r.loc.lon,
     processing_date   |-> clock,
     collection_type   |-> "gap_fill"]

\* the run returns: result is the boolean handed to the caller, outcome the
\* return statement taken
Return(r, result, outcome) ==
    [r EXCEPT !.status = "returned", !.result = result, !.outcome = outcome]

\* an except clause that lets the exception go on to the caller
ExceptPropagates(r) == [r EXCEPT !.status = "raised", !.outcome = "error"]

\* except Exception as e: logger.error(...); return False
Except(r) == Return(r, FALSE, "error")

\* collect_satellite_data(region_name, latitude, longitude) up to the first
\* call of the aggregator: the latest-month query, the plan, ee.Initialize()
CollectStart(loc) ==
    /\ pc \in {"idle", "done"}
    /\ nruns < MaxRuns
    /\ \E query_ok \in CallOutcomes, ee_ok \in CallOutcomes :
         LET region_id      == RegionId(loc.lat, loc.lon)
             latest_month   == _get_latest_data_month(store, region_id, query_ok)
             current_month  == StrfYm(Now)
             missing_months == _get_missing_months(latest_month, current_month)
             r0 == [NoRun EXCEPT !.status = "running", !.loc = loc,
                                 !.region_id = region_id, !.day = clock,
                                 !.query_ok = query_ok,
                                 !.latest_month = latest_month]
         IN  /\ nfaults + Failed(query_ok) + Failed(ee_ok) <= MaxFaults
             /\ nfaults' = nfaults + Failed(query_ok) + Failed(ee_ok)
             /\ IF latest_month = NoneStr
                THEN \* collect_satellite_data_monthly
                     IF ee_ok
                     THEN /\ run' = [r0 EXCEPT !.mode = "bootstrap",
                                               !.plan = BootstrapWindows(Now)]
                          /\ pc' = "aggregate"
                     ELSE /\ run' = Except([r0 EXCEPT !.mode = "bootstrap"])
                          /\ pc' = "done"
                ELSE IF missing_months = <<>>
                THEN /\ ee_ok                   \* ee.Initialize() is not reached
                     /\ run' = Return([r0 EXCEPT !.mode = "gap_fill"], TRUE, "up_to_date")
                     /\ pc' = "done"
                ELSE \* _fill_missing_months
                     IF ee_ok
                     THEN /\ run' = [r0 EXCEPT !.mode = "gap_fill",
                                               !.plan = GapWindows(missing_months)]
                          /\ pc' = "aggregate"
                     ELSE /\ run' = Except([r0 EXCEPT !.mode = "gap_fill"])
                          /\ pc' = "done"
    /\ prev' = run
    /\ nruns' = nruns + 1
    /\ UNCHANGED <<clock, store, imagery, nticks, mm, agg, qa, rid, par, pipe, bot>>

\* the archive queried by collection.getInfo() for one window of one location;
\* its content is fixed the first time the window is asked for
Archive(loc, w) == <<loc.name, w.month_start, w.month_end>>

\* one call of the aggregator, as the run's log keeps it
\* usable is the number of images of the backend's answer that yielded a metric
Usable(answer) ==
    IF answer.ok
    THEN Cardinality({i \in 1..Len(answer.features) :
                         answer.features[i].fault \in {"ok", "no_time"}})
    ELSE 0

\* found: the aggregator returned a record
Attempt(w, answer, month_data) ==
    [month_start |-> w.month_start, month_end |-> w.month_end,
     usable |-> Usable(answer), found |-> month_data # <<>>]

\* a month loop that a failed image search ends, the run returning False
LoopBodyEndsAtSearchError(r, w, answer, tagged) ==
    IF answer.ok
    THEN [r EXCEPT !.attempts = Append(@, Attempt(w, answer, tagged)),
                   !.monthly_data = @ \o tagged]
    ELSE Except([r EXCEPT !.attempts = Append(@, Attempt(w, answer, tagged))])

\* a loop body that appends the month's record twice
LoopBodyAppendsTwice(r, w, answer, tagged) ==
    [r EXCEPT !.attempts = Append(@, Attempt(w, answer, tagged)),
              !.monthly_data = @ \o tagged \o tagged]

\* the body of the month loop after the aggregator returned: if month_data:
\* (update and) append, else: a warning
LoopBody(r, w, answer, tagged) ==
    [r EXCEPT !.attempts = Append(@, Attempt(w, answer, tagged)),
              !.monthly_data = @ \o tagged]

\* one iteration of the month loop (of either mode): the aggregator is called
\* for the next planned window
Aggregate ==
    /\ pc = "aggregate"
    /\ Len(run.attempts) < Len(run.plan)
    /\ LET w   == run.plan[Len(run.attempts) + 1]
           key == Archive(run.loc, w)
       IN  \E features \in (IF key \in DOMAIN imagery THEN {imagery[key]} ELSE ArchiveChoices),
              fault \in {"none"} \cup CallFaults :
             /\ fault # "none" => MoreFaults
             /\ fault \in {"reduce_error", "nd_none"} => features # <<>>
             /\ LET answer == Answer(features, fault)
                IN  \E month_data \in {_get_monthly_averaged_data(
                                           answer, w.month_start, w.month_end, ties) :
                                           ties \in Ties} :
                      LET tagged == IF run.mode = "gap_fill"
                                    THEN [i \in 1..Len(month_data) |->
                                             GapFillTag(month_data[i], run)]
                                    ELSE month_data
                      IN  /\ nfaults' = nfaults + Failed(fault = "none")
                          /\ imagery' = (key :> features) @@ imagery
                          /\ run' = LoopBody(run, w, answer, tagged)
                          /\ pc' = IF run'.status = "running" THEN "aggregate" ELSE "done"
    /\ UNCHANGED <<clock, store, prev, nruns, nticks, mm, agg, qa, rid, par, pipe, bot>>

\* after the month loop: nothing collected, or the batch is uploaded
Upload ==
    /\ pc = "aggregate"
    /\ Len(run.attempts) = Len(run.plan)
    /\ IF run.monthly_data = <<>>
       THEN /\ run' = Return(run, FALSE, "no_data")
            /\ UNCHANGED <<store, nfaults>>
       ELSE \E load_ok \in CallOutcomes :
              LET data_rows == IF run.mode = "bootstrap"
                               THEN [i \in 1..Len(run.monthly_data) |->
                                        BootstrapTag(run.monthly_data[i], run)]
                               ELSE run.monthly_data
                  up == _upload_to_bigquery(store, data_rows, load_ok)
              IN  /\ store' = up.table
                  /\ nfaults' = nfaults + Failed(load_ok)
                  /\ run' = Return([run EXCEPT !.monthly_data = data_rows,
                                               !.appended = IF load_ok THEN data_rows ELSE <<>>,
                                               !.loads = @ + 1],
                                   up.ret,
                                   IF up.ret THEN "uploaded" ELSE "upload_failed")
    /\ pc' = "done"
    /\ UNCHANGED <<clock, imagery, prev, nruns, nticks, mm, agg, qa, rid, par, pipe, bot>>

\* time passes between two runs
TickDays == {31}

Tick ==
    /\ pc \in {"idle", "done"}
    /\ nticks < MaxTicks
    /\ \E d \in TickDays : clock' = clock + d
    /\ nticks' = nticks + 1
    /\ UNCHANGED <<store, imagery, pc, run, prev, nruns, nfaults, mm, agg, qa, rid, par, pipe, bot>>

\* the day the behaviours start on
StartDate == Date(2024, 3, 1)

NoLoop ==
    [pc |-> "none", latest_month |-> NoneStr, current_month |-> NoneStr,
     check_date |-> Date(0, 0, 0), current_date |-> Date(0, 0, 0),
     missing_months |-> <<>>, iterations |-> 0]

\* no call of the aggregator on its own
NoCall == [pc |-> "none", resp |-> [ok |-> TRUE, features |-> <<>>], result |-> <<>>]

\* no derivation of region ids on its own
NoDerive ==
    [pc |-> "none", a |-> NoLocation, b |-> NoLocation,
     id_a |-> RegionId(0, 0), id_b |-> RegionId(0, 0)]

\* no runs in progress at once
NoPar == [cur |-> NoLocation, saved |-> <<>>]

\* no call of the pipeline: n counts the calls, day, rows0 and nruns0 are the
\* day, the length of the table and the number of collect runs when the
\* last call began
NoPipe ==
    [pc |-> "idle", n |-> 0, location_name |-> "", loc |-> NoLocation, day |-> 0,
     rows0 |-> 0, nruns0 |-> 0, count_ok |-> TRUE, success |-> FALSE, error |-> "",
     needs_collection |-> FALSE, collection_status |-> ""]

\* no entry of the user in user_sessions: keys holds the keys the entry has,
\* and a key it has not has the value written here
NoAdding == [keys |-> {}, step |-> "", name |-> ""]

NoSession ==
    [exists |-> FALSE, keys |-> {}, mode |-> "", sensor |-> "", lat |-> 0, lon |-> 0,
     current_date |-> 0, adding_location |-> NoAdding, removing_location |-> FALSE,
     personal_locations |-> {}]

\* no update
NoUpdate == [kind |-> "", text |-> "", lat |-> 0, lon |-> 0, data |-> ""]

\* no navigation callback in progress
NoNav == [pc |-> "idle", update |-> NoUpdate, lat |-> 0, lon |-> 0, sensor |-> "",
          current_date |-> 0, direction |-> ""]

\* nothing handled yet: the update handled last, the handler that took it
\* and what the handler did
NoLast == [update |-> NoUpdate, handler |-> "", reply |-> "", fault |-> "", fetch |-> FALSE,
           call |-> "", result |-> FALSE, arg |-> <<>>]

\* the bot before the first update
NoBot == [session |-> NoSession, nav |-> NoNav, loading |-> 0, last |-> NoLast]

\* no call of the quality assessment on its own
NoAssess == [pc |-> "none", avg_cloud_cover |-> 0, std_dev |-> 0, image_count |-> 0,
             scores |-> <<>>, ratings |-> <<>>]

Init ==
    /\ clock = ToOrdinal(StartDate)
    /\ store = <<>>
    /\ imagery = <<>>
    /\ pc = "idle"
    /\ run = NoRun
    /\ prev = NoRun
    /\ nruns = 0
    /\ nticks = 0
    /\ nfaults = 0
    /\ rid = NoDerive
    /\ par = NoPar
    /\ pipe = NoPipe
    /\ bot = NoBot
    /\ mm = NoLoop
    /\ agg = NoCall
    /\ qa = NoAssess

Next ==
    \/ \E loc \in Locations : CollectStart(loc)
    \/ Aggregate
    \/ Upload
    \/ Tick

Spec == Init /\ [][Next]_vars

\* 'YYYY-MM' for a year and a month number (00 and 13 are no months, and
\* strptime refuses them)
YmString(y, m) == StrfYm(Date(y, m, 1))

\* the number of a month key's month, counted from year 0
MonthIndex(s) == StrpYm(s).year * 12 + StrpYm(s).month - 1

(***************************************************************************)
(* Properties of the collect run                                           *)
(***************************************************************************)
Finished(r) == r.status = "returned"

\* the run went through its month loop to the end
LoopDone(r) == r.outcome \in {"no_data", "uploaded", "upload_failed"}

\* the month keys of the windows the aggregator was called for, in call order
AttemptMonths(r) == [k \in 1..Len(r.attempts) |-> StrfYm(r.attempts[k].month_start)]

\* the month the run started in
CurrentMonth(r) == StrfYm(FromOrdinal(r.day))

RowKey(row) == <<row.region_id, row.acquisition_month>>

\* C1: the rows one run appends have pairwise different
\* (region_id, acquisition_month) pairs.
C1_NoDuplicateMonthInRun ==
    \A i, j \in 1..Len(run.appended) :
        i # j => RowKey(run.appended[i]) # RowKey(run.appended[j])

\* C2: a bootstrap run that went through its loop called the aggregator six
\* times, for the six different months current-5 .. current.
C2_BootstrapSixConsecutiveMonths ==
    (run.mode = "bootstrap" /\ LoopDone(run))
    => /\ Len(run.attempts) = 6
       /\ {MonthIndex(AttemptMonths(run)[k]) : k \in 1..Len(run.attempts)}
             = (MonthIndex(CurrentMonth(run)) - 5) .. MonthIndex(CurrentMonth(run))

\* C5: a month the previous run asked the aggregator for in vain, and for
\* which the store holds no row of the region, is asked for again by the next
\* run of the region (unless that run fails before its month loop).
C5_NoDataMonthStaysOpen ==
    (Finished(prev) /\ Finished(run) /\ run.loc = prev.loc /\ run.outcome # "error")
    => \A k \in 1..Len(prev.attempts) :
         LET month == AttemptMonths(prev)[k]
         IN  (/\ ~prev.attempts[k].found
              /\ \A row \in Rows(store) : RowKey(row) # <<prev.region_id, month>>)
             => \E j \in 1..Len(run.attempts) : AttemptMonths(run)[j] = month

\* C6: of two runs for one region on the same day, with no call failing, the
\* second appends nothing; and when the first wrote a row for the current
\* month the second calls the aggregator not at all and returns True.
C6_SecondRunIsNoOp ==
    (Finished(prev) /\ Finished(run) /\ run.loc = prev.loc /\ run.day = prev.day
        /\ nfaults = 0)
    => /\ run.appended = <<>>
       /\ (\E i \in 1..Len(prev.appended) :
              prev.appended[i].acquisition_month = CurrentMonth(prev))
          => (run.attempts = <<>> /\ run.result = TRUE)

\* C7: a gap-fill run with latest recorded month L and current month C > L
\* calls the aggregator for the months L+1, L+2, ..., C, in this order, once
\* each and for no other month, whatever the calls return: at every moment
\* the calls made are the first months of that list, and a run that went
\* through its loop has made them all.
C7_GapFillAttemptsExactlyTheGap ==
    (run.mode = "gap_fill" /\ run.outcome \notin {"up_to_date", "error"})
    => LET L == MonthIndex(run.latest_month)
           C == MonthIndex(CurrentMonth(run))
           n == Len(run.attempts)
       IN  /\ C > L
           /\ n <= C - L
           /\ \A k \in 1..n : MonthIndex(AttemptMonths(run)[k]) = L + k
           /\ LoopDone(run) => n = C - L

\* a finished gap-fill run over at least three months, some with a record
\* and some without
C7_Witness ==
    /\ run.mode = "gap_fill"
    /\ LoopDone(run)
    /\ Len(run.attempts) >= 3
    /\ \E i, j \in 1..Len(run.attempts) : run.attempts[i].found /\ ~run.attempts[j].found

\* C8: the aggregator returns no record when the search yields no image or no
\* image yields a metric, and a record counts exactly the images that did; so
\* no record of a run and no row of the store has image_count = 0.
C8_NoRecordWithoutImages ==
    /\ \A k \in 1..Len(run.attempts) : run.attempts[k].found <=> run.attempts[k].usable >= 1
    /\ \A row \in Rows(run.monthly_data) : row.image_count >= 1
    /\ \A row \in Rows(store) : row.image_count >= 1

\* a run in which the search returned an image that yielded no metric, and
\* whose other months put rows into the store
C8_Witness ==
    /\ \E k \in 1..Len(run.attempts) : ~run.attempts[k].found /\ run.attempts[k].usable = 0
    /\ nfaults > 0
    /\ run.outcome = "uploaded"
    /\ store # <<>>

\* C9: a run whose planned months all yield no data returns False and appends
\* nothing, and the value it returns differs from the value a run returns
\* whose upload failed.
C9_NoDataDistinctFromStorageError ==
    /\ run.outcome = "no_data" => (run.result = FALSE /\ run.appended = <<>>)
    /\ \A a, b \in {prev, run} :
         (a.outcome = "no_data" /\ b.outcome = "upload_failed") => a.result # b.result

RowFields == {"region_id", "region_name", "latitude", "longitude", "collection_type"}

\* C10: every row a run appends carries region_id, region_name, latitude,
\* longitude and collection_type, the latter naming the mode of the run.
C10_RowsTaggedWithCollectionType ==
    \A row \in Rows(run.appended) :
        /\ RowFields \subseteq DOMAIN row
        /\ row.collection_type = run.mode

\* the planned months of a run whose aggregation returned a record
FoundCount(r) == Cardinality({k \in 1..Len(r.attempts) : r.attempts[k].found})

\* the months after the latest recorded month up to the current month
GapCount(r) ==
    IF r.latest_month = NoneStr \/ MonthIndex(CurrentMonth(r)) <= MonthIndex(r.latest_month)
    THEN 0
    ELSE MonthIndex(CurrentMonth(r)) - MonthIndex(r.latest_month)

\* the most rows a run of this mode may append
RowLimit(r) == IF r.mode = "bootstrap" THEN 6 ELSE GapCount(r)

\* C11 (as stated): the rows a run appends are at most 6 (bootstrap) or the
\* number of missing months (gap fill), and as many as the planned months
\* whose aggregation returned a record
C11_RowsAppendedEqualRecords ==
    Finished(run) =>
        /\ Len(run.appended) <= RowLimit(run)
        /\ Len(run.appended) = FoundCount(run)

\* C11 (amended): the rows a run appends are at most 6 (bootstrap) or the
\* number of missing months (gap fill); they are as many as the planned
\* months whose aggregation returned a record when the append succeeds, and
\* none when it fails; the store grows by exactly these rows, at the run's end
C11_RowsAppendedBounded ==
    [][ /\ Finished(run') =>
             /\ Len(run'.appended) <= RowLimit(run')
             /\ FoundCount(run') <= RowLimit(run')
             /\ run'.outcome = "uploaded" => Len(run'.appended) = FoundCount(run')
             /\ run'.outcome # "uploaded" => run'.appended = <<>>
        /\ store' = store \o (IF run.status = "running" /\ Finished(run')
                              THEN run'.appended ELSE <<>>) ]_vars

C11_Witness ==
    /\ run.mode = "bootstrap"
    /\ run.outcome = "uploaded"
    /\ Len(run.attempts) = 6
    /\ Len(run.appended) = 4
    /\ FoundCount(run) = 4
    /\ Len(store) = 4

\* C12: a run that reads a latest recorded month equal to or later than the
\* current month returns True at once: it does not call the aggregator and
\* leaves the store as it was
C12_UpToDateIsNoOp ==
    [][ (run' # run /\ run'.latest_month # NoneStr
           /\ MonthIndex(run'.latest_month) >= MonthIndex(CurrentMonth(run')))
        => /\ Finished(run') /\ run'.result = TRUE
           /\ run'.plan = <<>> /\ run'.attempts = <<>>
           /\ run'.monthly_data = <<>> /\ run'.appended = <<>>
           /\ pc' = "done"
           /\ store' = store /\ imagery' = imagery ]_vars

\* a second run in the month the first run wrote a row for
C12_Witness ==
    /\ prev.outcome = "uploaded"
    /\ run.latest_month = CurrentMonth(run)
    /\ \E row \in Rows(store) : RowKey(row) = <<run.region_id, CurrentMonth(run)>>
    /\ run.outcome = "up_to_date"
    /\ run.result = TRUE
    /\ store = prev.appended

\* C13: a run whose latest-month query fails goes on as a run for a region
\* without history does: it reads no latest month, takes the bootstrap path
\* with the six windows counted back from its day, and calls the aggregator
\* for all six
C13_ReadFailureBootstraps ==
    (run.status # "none" /\ ~run.query_ok) =>
        /\ run.latest_month = NoneStr
        /\ run.mode = "bootstrap"
        /\ run.outcome # "up_to_date"
        /\ run.outcome # "error" =>
             /\ run.plan = BootstrapWindows(FromOrdinal(run.day))
             /\ Len(run.plan) = 6
        /\ LoopDone(run) => Len(run.attempts) = 6

\* the query fails for a region with rows, and the bootstrap appends a month
\* again that the store already held
C13_Witness ==
    /\ ~run.query_ok
    /\ prev.outcome = "uploaded"
    /\ run.outcome = "uploaded"
    /\ Len(run.attempts) = 6
    /\ \E i \in 1..Len(run.appended), j \in 1..Len(prev.appended) :
          RowKey(run.appended[i]) = RowKey(prev.appended[j])

\* p is a prefix of q
IsPrefix(p, q) == Len(p) <= Len(q) /\ \A k \in 1..Len(p) : p[k] = q[k]

C17_SearchFailureCostsOneMonth ==
    (Finished(run) /\ run.plan # <<>>) =>
        /\ Len(run.attempts) = Len(run.plan)
        /\ LoopDone(run)
        /\ LET found == {k \in 1..Len(run.attempts) : run.attempts[k].found}
           IN  /\ Len(run.monthly_data) = Cardinality(found)
               /\ \A i \in 1..Len(run.monthly_data) :
                     run.monthly_data[i].acquisition_month =
                         AttemptMonths(run)[Ascending(found)[i]]
               /\ run.outcome = "uploaded" => run.appended = run.monthly_data
               /\ found # {} => run.outcome \in {"uploaded", "upload_failed"}

\* a search that fails for a window the archive has an image for, in the
\* middle of a run that appends the months before and after it
C17_Witness ==
    /\ run.outcome = "uploaded"
    /\ nfaults = 1
    /\ \E k \in 2..(Len(run.attempts) - 1) :
          /\ ~run.attempts[k].found
          /\ run.attempts[k].usable = 0
          /\ imagery[Archive(run.loc, run.attempts[k])] # <<>>
          /\ run.attempts[k - 1].found
          /\ run.attempts[k + 1].found
    /\ Len(run.appended) = FoundCount(run)

\* the store as it was before the rows of the run were appended
StoreBefore == SubSeq(store, 1, Len(store) - Len(run.appended))

Keys(table) == {RowKey(row) : row \in Rows(table)}

\* the rows of one region, in append order
OwnRows(table, region_id) == SelectSeq(table, LAMBDA row : row.region_id = region_id)

\* C22: when the rows a run appends are all duplicates of (region, month)
\* pairs the store held, the latest month read for the region is the same
\* after the append as before it, and so are the months planned from it,
\* today and a month from now; the latest month is the maximum month stored
\* for the region
C22_DuplicatesKeepLatestAndPlan ==
    (run.appended # <<>> /\ Keys(run.appended) \subseteq Keys(StoreBefore)) =>
        LET before == _get_latest_data_month(StoreBefore, run.region_id, TRUE)
            after  == _get_latest_data_month(store, run.region_id, TRUE)
        IN  /\ after = before
            /\ \A day \in {clock} \cup {clock + d : d \in TickDays} :
                  _get_missing_months(after, StrfYm(FromOrdinal(day)))
                     = _get_missing_months(before, StrfYm(FromOrdinal(day)))
            /\ \E row \in Rows(store) : RowKey(row) = <<run.region_id, after>>
            /\ \A row \in Rows(store) :
                  row.region_id = run.region_id => ~StrLess(after, row.acquisition_month)

\* a bootstrap after a failed read appends again months the store held, some
\* of them earlier than the latest month
C22_Witness ==
    /\ ~run.query_ok
    /\ Len(run.appended) >= 2
    /\ Keys(run.appended) \subseteq Keys(StoreBefore)
    /\ Len(store) > Cardinality(Keys(store))
    /\ \E row \in Rows(run.appended) :
          StrLess(row.acquisition_month, MaxMonth(store, run.region_id))

\* C26: a run issues at most one load job, and none inside its month loop;
\* it issues one exactly when some planned month returned a record, with
\* all the records of the run; when the job succeeds these rows, all of
\* them and nothing else, are the rows the store then ends with
C26_OneBatchedAppendPerRun ==
    /\ run.loads <= 1
    /\ run.status = "running" => run.loads = 0
    /\ run.loads = 1 <=> run.outcome \in {"uploaded", "upload_failed"}
    /\ (LoopDone(run) /\ FoundCount(run) = 0) =>
          (run.loads = 0 /\ run.appended = <<>> /\ run.outcome = "no_data")
    /\ run.loads = 1 =>
          (FoundCount(run) >= 1 /\ Len(run.monthly_data) = FoundCount(run))
    /\ run.outcome = "uploaded" =>
          /\ run.appended = run.monthly_data
          /\ Len(store) >= Len(run.appended)
          /\ SubSeq(store, Len(store) - Len(run.appended) + 1, Len(store)) = run.appended
          /\ prev.status = "none" => store = run.appended
    /\ run.outcome # "uploaded" => run.appended = <<>>

\* the first run appended three or more rows in its one load job
C26_Witness ==
    /\ prev.status = "none"
    /\ run.outcome = "uploaded"
    /\ run.loads = 1
    /\ Len(run.appended) >= 3
    /\ store = run.appended

\* C29: the rows a gap-fill run appends are for months later than every
\* month the store held for the region when the run read it, so that none
\* of them is a second row for a (region_id, month) pair, and no two of them
\* are for the same month
C29_GapFillAppendsOnlyLaterMonths ==
    (run.mode = "gap_fill" /\ run.appended # <<>>) =>
        /\ run.query_ok
        /\ \A row \in Rows(run.appended) :
              /\ row.region_id = run.region_id
              /\ \A old \in Rows(StoreBefore) :
                    old.region_id = run.region_id
                        => StrLess(old.acquisition_month, row.acquisition_month)
              /\ RowKey(row) \notin Keys(StoreBefore)
        /\ Cardinality(Keys(run.appended)) = Len(run.appended)
        /\ Cardinality(Keys(OwnRows(store, run.region_id)))
              = Cardinality(Keys(OwnRows(StoreBefore, run.region_id))) + Len(run.appended)

\* a month after a bootstrap, a gap-fill run appends rows for two new months
C29_Witness ==
    /\ run.mode = "gap_fill"
    /\ prev.outcome = "uploaded"
    /\ run.day > prev.day
    /\ run.outcome = "uploaded"
    /\ Len(run.appended) >= 2
    /\ Len(StoreBefore) >= 2

\* the days from the first of month m of year y to the first of the next month
DaysToNextMonth(y, m) ==
    ToOrdinal(NextMonth(Date(y, m, 1))) - ToOrdinal(Date(y, m, 1))

\* the key of the month numbered idx from year 0
MonthKey(idx) == YmString(idx \div 12, (idx % 12) + 1)

\* the month of the n-th call of a run's loop: the month of the day
\* 30 * (n - 1) days before the run's day (bootstrap), or the n-th month
\* after the latest recorded month (gap fill)
PlannedMonth(r, n) ==
    IF r.mode = "bootstrap"
    THEN StrfYm(FromOrdinal(r.day - OffsetDays * (n - 1)))
    ELSE MonthKey(MonthIndex(r.latest_month) + n)

\* the window is the calendar month of the key month
IsCalendarMonth(w, month) ==
    LET first == w.month_start
        last  == w.month_end
    IN  /\ StrfYm(first) = month
        /\ first.day = 1
        /\ last.year = first.year /\ last.month = first.month
        /\ last.day \in {28, 29, 30, 31}
        /\ last.day = DaysToNextMonth(first.year, first.month)
        /\ first.month = 2 =>
              (last.day = 29 <=>
                   ToOrdinal(Date(first.year + 1, 1, 1)) - ToOrdinal(Date(first.year, 1, 1)) = 366)

\* C25: the window the aggregator is called with for a planned month (seen
\* at the call made last) is the window planned for it, starts on day 1 of
\* the month and ends on its last calendar day (29 February exactly in leap
\* years), and the record returned carries the planned month; before any
\* run, the same for the window of every month of the years
\* 2023 .. 2023 + YearSpan
C25_WindowIsTheCalendarMonth ==
    /\ run.attempts # <<>> =>
          LET n     == Len(run.attempts)
              w     == run.attempts[n]
              month == PlannedMonth(run, n)
          IN  /\ n <= Len(run.plan)
              /\ run.plan[n] = [month_start |-> w.month_start, month_end |-> w.month_end]
              /\ IsCalendarMonth(w, month)
              /\ w.found =>
                    /\ run.monthly_data # <<>>
                    /\ run.monthly_data[Len(run.monthly_data)].acquisition_month = month
    /\ run.status = "none" =>
          \A y \in 2023..(2023 + YearSpan), m \in 1..12 :
              IsCalendarMonth(GapWindows(<<YmString(y, m)>>)[1], YmString(y, m))

\* a gap-fill run whose plan holds February 2024, a leap February, with a
\* record for it
C25_Witness ==
    /\ run.mode = "gap_fill"
    /\ \E k \in 1..Len(run.attempts) :
          /\ run.plan[k] = [month_start |-> Date(2024, 2, 1), month_end |-> Date(2024, 2, 29)]
          /\ run.attempts[k].found
          /\ \E row \in Rows(run.monthly_data) : row.acquisition_month = YmString(2024, 2)

(***************************************************************************)
(* _get_missing_months on its own, the while loop one iteration at a time  *)
(***************************************************************************)
MonthInputs == {YmString(y, m) : y \in 2023..(2023 + YearSpan), m \in 0..13}

\* entry: both strings are parsed; the early return of an empty list
MMEnter ==
    /\ mm.pc = "called"
    /\ IF ~(StrpOk(mm.latest_month) /\ StrpOk(mm.current_month))
       THEN mm' = [mm EXCEPT !.pc = "returned"]         \* except Exception: return []
       ELSE LET latest_date  == StrpYm(mm.latest_month)
                current_date == StrpYm(mm.current_month)
            IN  IF DateLeq(current_date, latest_date)
                THEN mm' = [mm EXCEPT !.pc = "returned", !.current_date = current_date,
                                      !.check_date = latest_date]
                ELSE mm' = [mm EXCEPT !.pc = "loop", !.current_date = current_date,
                                      !.check_date = latest_date]
    /\ UNCHANGED <<clock, store, imagery, pc, run, prev, nruns, nticks, nfaults, agg, qa, rid, par, pipe, bot>>

\* one iteration of the while loop
MMStep ==
    /\ mm.pc = "loop"
    /\ LoopCond(mm.check_date, mm.current_date)
    /\ LET nxt == NextMonth(mm.check_date)
       IN  mm' = [mm EXCEPT !.check_date = nxt,
                            !.missing_months = Append(@, StrfYm(nxt)),
                            !.iterations = @ + 1]
    /\ UNCHANGED <<clock, store, imagery, pc, run, prev, nruns, nticks, nfaults, agg, qa, rid, par, pipe, bot>>

\* the loop condition fails: return missing_months
MMReturn ==
    /\ mm.pc = "loop"
    /\ ~LoopCond(mm.check_date, mm.current_date)
    /\ mm' = [mm EXCEPT !.pc = "returned"]
    /\ UNCHANGED <<clock, store, imagery, pc, run, prev, nruns, nticks, nfaults, agg, qa, rid, par, pipe, bot>>

InitMissing ==
    /\ clock = ToOrdinal(StartDate)
    /\ store = <<>>
    /\ imagery = <<>>
    /\ pc = "idle"
    /\ run = NoRun
    /\ prev = NoRun
    /\ nruns = 0
    /\ nticks = 0
    /\ nfaults = 0
    /\ rid = NoDerive
    /\ par = NoPar
    /\ pipe = NoPipe
    /\ bot = NoBot
    /\ \E l \in MonthInputs, c \in MonthInputs :
         mm = [NoLoop EXCEPT !.pc = "called", !.latest_month = l, !.current_month = c]
    /\ agg = NoCall
    /\ qa = NoAssess

NextMissing == MMEnter \/ MMStep \/ MMReturn

SpecMissing == InitMissing /\ [][NextMissing]_vars

(***************************************************************************)
(* Properties of _get_missing_months                                       *)
(***************************************************************************)
MMValid == StrpOk(mm.latest_month) /\ StrpOk(mm.current_month)

\* C3: when current > latest, the list returned holds exactly the months
\* latest+1, latest+2, ..., current, in this (strictly increasing) order: it
\* starts at the successor of latest, ends at current, and its length is the
\* number of months from latest (exclusive) to current (inclusive); each entry
\* is a well-formed 'YYYY-MM' key, December being followed by January of the
\* next year.
C3_MissingMonthsEnumerated ==
    (mm.pc = "returned" /\ MMValid /\ MonthIndex(mm.current_month) > MonthIndex(mm.latest_month))
    => LET res == mm.missing_months
           n   == MonthIndex(mm.current_month) - MonthIndex(mm.latest_month)
       IN  /\ Len(res) = n
           /\ \A k \in 1..Len(res) :
                /\ StrpOk(res[k])
                /\ MonthIndex(res[k]) = MonthIndex(mm.latest_month) + k
                /\ k > 1 => StrLess(res[k - 1], res[k])
           /\ res[Len(res)] = mm.current_month
           /\ res = _get_missing_months(mm.latest_month, mm.current_month)

\* a returned gap of three months that crosses a year boundary
C3_Witness ==
    /\ mm.pc = "returned"
    /\ mm.latest_month = YmString(2023, 11)
    /\ mm.current_month = YmString(2024, 2)
    /\ mm.missing_months = <<YmString(2023, 12), YmString(2024, 1), YmString(2024, 2)>>

\* C4: when current <= latest, the list returned is empty.
C4_NoGapWhenNotLater ==
    (mm.pc = "returned" /\ MMValid /\ MonthIndex(mm.current_month) <= MonthIndex(mm.latest_month))
    => /\ mm.missing_months = <<>>
       /\ _get_missing_months(mm.latest_month, mm.current_month) = <<>>

\* current is a smaller month number of an earlier year than latest
C4_Witness ==
    /\ mm.pc = "returned"
    /\ mm.latest_month = YmString(2024, 1)
    /\ mm.current_month = YmString(2023, 5)
    /\ mm.missing_months = <<>>

\* the function's code is sequential: a call that can take a step takes it
SpecMissingFair == InitMissing /\ [][NextMissing]_vars /\ WF_vars(NextMissing)

\* the number of months from latest (exclusive) to current (inclusive)
MMGap ==
    IF MonthIndex(mm.current_month) > MonthIndex(mm.latest_month)
    THEN MonthIndex(mm.current_month) - MonthIndex(mm.latest_month)
    ELSE 0

\* the loop has neither run longer than the gap nor stepped past current,
\* and has run for exactly the gap when the function returns
C37_Bounded ==
    MMValid =>
        /\ mm.iterations <= MMGap
        /\ Len(mm.missing_months) = mm.iterations
        /\ mm.pc = "loop" =>
              /\ MonthIndex(StrfYm(mm.check_date)) = MonthIndex(mm.latest_month) + mm.iterations
              /\ MonthIndex(StrfYm(mm.check_date)) <= MonthIndex(mm.current_month)
              /\ DateLeq(mm.check_date, mm.current_date)
        /\ mm.pc = "returned" => mm.iterations = MMGap

\* C37: for every pair of well-formed 'YYYY-MM' inputs the loop of
\* _get_missing_months ends: the function returns, after exactly as many
\* iterations as there are months from latest to current, and the month
\* examined is never later than current
C37_LoopTerminatesAfterTheGap ==
    /\ []C37_Bounded
    /\ MMValid ~> (mm.pc = "returned" /\ mm.iterations = MMGap)

\* a call that returned after three iterations, across a year boundary
C37_Witness ==
    /\ mm.pc = "returned"
    /\ mm.latest_month = YmString(2023, 12)
    /\ mm.current_month = YmString(2024, 3)
    /\ mm.iterations = 3

(***************************************************************************)
(* _get_monthly_averaged_data on its own: the answer of the image search   *)
(* is drawn (up to max_images features, lowest cloud cover first, each     *)
(* with what goes wrong when it is processed) and the function is called   *)
(* for the window of April 2024                                            *)
(***************************************************************************)
\* the images the search can find, by ascending CLOUDY_PIXEL_PERCENTAGE (all
\* below 25 %)
ImagePool ==
    << Image(1,  3, 6200, Pct(5), "ok"),
       Image(2,  7, 6201, 555, "ok"),
       Image(3, 12, 6500, Pct(6), "ok"),
       Image(4, 15, 5800, Pct(8), "ok"),
       Image(5, 19, 4500, Pct(16), "ok"),
       Image(6, 24, 5500, Pct(24), "ok") >>

\* what can go wrong with one image
ImageFaults == {"ok", "nd_none", "reduce_error", "no_time"}

\* the feature lists the search can return: .sort(...).limit(max_images)
FeatureLists ==
    { [i \in 1..Len(ix) |-> [ImagePool[ix[i]] EXCEPT !.fault = f[i]]] :
        <<ix, f>> \in UNION { {Ascending(S)} \X [1..Cardinality(S) -> ImageFaults] :
                                S \in {T \in SUBSET (1..Len(ImagePool)) :
                                          Cardinality(T) <= MaxImages} } }

AggWindow == [month_start |-> Date(2024, 4, 1), month_end |-> Date(2024, 4, 30)]

\* the call returns
AggReturn ==
    /\ agg.pc = "called"
    /\ \E ties \in Ties :
         agg' = [agg EXCEPT !.pc = "returned",
                            !.result = _get_monthly_averaged_data(
                                           agg.resp, AggWindow.month_start,
                                           AggWindow.month_end, ties)]
    /\ UNCHANGED <<clock, store, imagery, pc, run, prev, nruns, nticks, nfaults, mm, qa, rid, par, pipe, bot>>

InitAgg ==
    /\ clock = ToOrdinal(StartDate)
    /\ store = <<>>
    /\ imagery = <<>>
    /\ pc = "idle"
    /\ run = NoRun
    /\ prev = NoRun
    /\ nruns = 0
    /\ nticks = 0
    /\ nfaults = 0
    /\ rid = NoDerive
    /\ par = NoPar
    /\ pipe = NoPipe
    /\ bot = NoBot
    /\ mm = NoLoop
    /\ qa = NoAssess
    /\ \E ok \in BOOLEAN, features \in FeatureLists :
         agg = [NoCall EXCEPT !.pc = "called", !.resp = [ok |-> ok, features |-> features]]

NextAgg == AggReturn

SpecAgg == InitAgg /\ [][NextAgg]_vars

(***************************************************************************)
(* _assess_monthly_data_quality on its own: a mean cloud cover and a       *)
(* standard deviation are drawn, and the function is called for the image  *)
(* counts 1, 2, ... in turn                                                *)
(***************************************************************************)
CloudInputs ==
    {0, 633, Pct(10) - 1, Pct(10), Pct(20) - 1, Pct(20), Pct(25) - 1}

StdInputs ==
    {0, 294, Hundredths(5) - 1, Hundredths(5), Hundredths(10) - 1, Hundredths(10),
     Hundredths(20)}

\* one call, for the next image count
Assess ==
    /\ qa.pc = "called"
    /\ qa.image_count < MaxImages + 1
    /\ LET image_count == qa.image_count + 1
       IN  qa' = [qa EXCEPT
                    !.image_count = image_count,
                    !.scores  = Append(@, QualityScore(image_count, qa.avg_cloud_cover,
                                                       qa.std_dev)),
                    !.ratings = Append(@, _assess_monthly_data_quality(
                                              image_count, qa.avg_cloud_cover, qa.std_dev))]
    /\ UNCHANGED <<clock, store, imagery, pc, run, prev, nruns, nticks, nfaults, mm, agg, rid, par, pipe, bot>>

InitQuality ==
    /\ clock = ToOrdinal(StartDate)
    /\ store = <<>>
    /\ imagery = <<>>
    /\ pc = "idle"
    /\ run = NoRun
    /\ prev = NoRun
    /\ nruns = 0
    /\ nticks = 0
    /\ nfaults = 0
    /\ rid = NoDerive
    /\ par = NoPar
    /\ pipe = NoPipe
    /\ bot = NoBot
    /\ mm = NoLoop
    /\ agg = NoCall
    /\ \E c \in CloudInputs, d \in StdInputs :
         qa = [NoAssess EXCEPT !.pc = "called", !.avg_cloud_cover = c, !.std_dev = d]

NextQuality == Assess

SpecQuality == InitQuality /\ [][NextQuality]_vars

(***************************************************************************)
(* Properties of the quality assessment                                    *)
(***************************************************************************)
\* the points table, factor by factor
TableCount(n) == CASE n >= 3 -> 40 [] n = 2 -> 25 [] n = 1 -> 10
TableCloud(c) == CASE c < Pct(10) -> 40
                   [] c >= Pct(10) /\ c < Pct(20) -> 25
                   [] c >= Pct(20) -> 10
TableStd(d)   == CASE d < Hundredths(5) -> 20
                   [] d >= Hundredths(5) /\ d < Hundredths(10) -> 10
                   [] d >= Hundredths(10) -> 5
TableTier(t)  == CASE t >= 80 -> "excellent"
                   [] t >= 60 /\ t < 80 -> "good"
                   [] t >= 40 /\ t < 60 -> "fair"
                   [] t < 40 -> "poor"

\* C18: the rating returned is the tier of count points + cloud points + std
\* points as tabulated; 3 images with mean cloud 6.33 and std 0.0294 score
\* 100 and are rated excellent
C18_QualityIsTierOfAdditiveScore ==
    \A n \in 1..Len(qa.ratings) :
        LET t == TableCount(n) + TableCloud(qa.avg_cloud_cover) + TableStd(qa.std_dev)
        IN  /\ qa.scores[n] = t
            /\ qa.ratings[n] = TableTier(t)
            /\ (n = 3 /\ qa.avg_cloud_cover = 633 /\ qa.std_dev = 294)
                  => (qa.scores[n] = 100 /\ qa.ratings[n] = "excellent")

C18_Witness ==
    /\ qa.avg_cloud_cover = 633
    /\ qa.std_dev = 294
    /\ qa.image_count = 3
    /\ qa.ratings[3] = "excellent"

TierRank(r) == CASE r = "poor" -> 0 [] r = "fair" -> 1 [] r = "good" -> 2 [] r = "excellent" -> 3

\* C19: with the mean cloud cover and the standard deviation fixed, neither
\* the score nor the tier decreases from image count 1 to 2 and from 2 to 3
C19_ScoreMonotonicInImageCount ==
    \A n \in 1..(Len(qa.ratings) - 1) :
        /\ qa.scores[n] <= qa.scores[n + 1]
        /\ TierRank(qa.ratings[n]) <= TierRank(qa.ratings[n + 1])

C19_Witness ==
    /\ qa.image_count = 3
    /\ qa.avg_cloud_cover = Pct(20)
    /\ qa.ratings = <<"poor", "fair", "fair">>
    /\ qa.scores[1] < qa.scores[2] /\ qa.scores[2] < qa.scores[3]

(***************************************************************************)
(* Properties of the aggregator                                            *)
(***************************************************************************)
\* the positions, in the search's answer, of the images whose metric came out
MetricOk(features) ==
    {i \in 1..Len(features) : features[i].fault \notin {"reduce_error", "nd_none"}}

\* the sum of f[i] over the positions i of S
RECURSIVE SumOver(_, _)
SumOver(f, S) ==
    IF S = {} THEN 0
    ELSE LET i == CHOOSE x \in S : TRUE IN f[i] + SumOver(f, S \ {i})

Abs(x) == IF x < 0 THEN -x ELSE x

\* k is num / den rounded to a whole unit
IsRounded(k, num, den) == 2 * Abs(k * den - num) <= den

AggReturned == agg.pc = "returned" /\ agg.resp.ok

\* C16: an image whose metric computation fails is skipped alone: a record is
\* returned exactly when some image of the answer yields a metric, and its
\* count, extremes, mean and (when every capture time is readable) image ids
\* are those of the images whose metric came out, in the answer's order
C16_FailedImageSkippedAlone ==
    AggReturned =>
        LET features == agg.resp.features
            good     == MetricOk(features)
            nd       == [i \in 1..Len(features) |-> features[i].nd]
        IN  /\ (good # {}) <=> (agg.result # <<>>)
            /\ agg.result # <<>> =>
                 LET rec == agg.result[1]
                 IN  /\ rec.image_count = Cardinality(good)
                     /\ \E i \in good : rec.ndvi_min = nd[i]
                     /\ \E i \in good : rec.ndvi_max = nd[i]
                     /\ \A i \in good : rec.ndvi_min <= nd[i] /\ nd[i] <= rec.ndvi_max
                     /\ IsRounded(rec.ndvi_mean, SumOver(nd, good), Cardinality(good))
                     /\ (\A i \in 1..Len(features) : features[i].fault # "no_time")
                          => rec.image_ids = [k \in 1..Cardinality(good) |->
                                                features[Ascending(good)[k]].id]

C16_Witness ==
    /\ AggReturned
    /\ Len(agg.resp.features) = 3
    /\ [i \in 1..3 |-> agg.resp.features[i].fault] = <<"ok", "reduce_error", "ok">>
    /\ [i \in 1..3 |-> agg.resp.features[i].id] = <<1, 3, 4>>
    /\ agg.result # <<>>
    /\ agg.result[1].image_count = 2
    /\ agg.result[1].image_ids = <<1, 4>>
    /\ agg.result[1].ndvi_mean = 6000

\* C20: in a record, ndvi_std is the population standard deviation of the
\* images' metric values (to 4 places) and is 0 for a single image, ndvi_mean
\* is their mean (to 4 places) and lies between ndvi_min and ndvi_max, and
\* cloud_percentage is the mean of those images' cloud values (to 1 place)
C20_RecordStatistics ==
    (AggReturned /\ agg.result # <<>>) =>
        LET features == agg.resp.features
            good     == MetricOk(features)
            n        == Cardinality(good)
            nd       == [i \in 1..Len(features) |-> features[i].nd]
            cloud    == [i \in 1..Len(features) |-> features[i].cloud]
            rec      == agg.result[1]
            \* n^2 * population variance = the sum over the pairs i < j of (x_i - x_j)^2
            n2var    == SumOver([p \in good \X good |->
                                   IF p[1] < p[2] THEN (nd[p[1]] - nd[p[2]]) * (nd[p[1]] - nd[p[2]])
                                   ELSE 0],
                                good \X good)
            k        == rec.ndvi_std
        IN  /\ rec.image_count = n
            /\ n = 1 => k = 0
            /\ k >= 0
            /\ 4 * n2var <= (2 * k + 1) * (2 * k + 1) * n * n
            /\ k > 0 => (2 * k - 1) * (2 * k - 1) * n * n <= 4 * n2var
            /\ IsRounded(rec.ndvi_mean, SumOver(nd, good), n)
            /\ rec.ndvi_min <= rec.ndvi_mean /\ rec.ndvi_mean <= rec.ndvi_max
            /\ IsRounded(rec.cloud_percentage, SumOver(cloud, good), 10 * n)

C20_Witness ==
    /\ AggReturned
    /\ [i \in 1..Len(agg.resp.features) |-> agg.resp.features[i].nd] = <<6200, 6500, 5800>>
    /\ \A i \in 1..Len(agg.resp.features) : agg.resp.features[i].fault = "ok"
    /\ agg.result # <<>>
    /\ agg.result[1].image_count = 3
    /\ agg.result[1].ndvi_mean = 6167
    /\ agg.result[1].ndvi_std = 287
    /\ agg.result[1].cloud_percentage = 63
    /\ agg.result[1].data_quality = "excellent"

\* C30: in a record, image_ids and image_dates have image_count entries
\* each, one per image whose metric is in the statistics
C30_IdsAndDatesMatchImageCount ==
    (AggReturned /\ agg.result # <<>>) =>
        LET rec == agg.result[1]
        IN  /\ rec.image_count = Cardinality(MetricOk(agg.resp.features))
            /\ Len(rec.image_ids) = rec.image_count
            /\ Len(rec.image_dates) = rec.image_count

\* C36: a record built from exactly one image has a standard deviation of
\* 0 and a score of 10 count points + 20 consistency points + the cloud
\* points, so that it is rated good (cloud cover below 10 %) or fair, never
\* excellent and never poor
C36_SingleImageIsGoodOrFair ==
    (AggReturned /\ agg.result # <<>> /\ agg.result[1].image_count = 1) =>
        LET rec   == agg.result[1]
            good  == MetricOk(agg.resp.features)
            cloud == agg.resp.features[CHOOSE i \in good : TRUE].cloud
        IN  /\ Cardinality(good) = 1
            /\ rec.ndvi_std = 0
            /\ rec.data_quality \in {"good", "fair"}
            /\ rec.data_quality = "good" <=> cloud < Pct(10)
            /\ rec.data_quality = TableTier(10 + 20 + TableCloud(cloud))

\* one image of three yields a metric, under 16 % of cloud: rated fair
C36_Witness ==
    /\ AggReturned
    /\ Len(agg.resp.features) = 3
    /\ [i \in 1..3 |-> agg.resp.features[i].fault] = <<"nd_none", "reduce_error", "ok">>
    /\ agg.resp.features[3].cloud = Pct(16)
    /\ agg.result # <<>>
    /\ agg.result[1].image_count = 1
    /\ agg.result[1].data_quality = "fair"

(***************************************************************************)
(* The region id on its own: two coordinate pairs are drawn and the key is *)
(* derived for each as collect_satellite_data derives it                   *)
(***************************************************************************)
\* latitudes and longitudes on both sides of 0 and of a bucket boundary
LatInputs == {0 - 6, 0 - 4, 0, 4, 6, 14}
LonInputs == {0 - 4, 4, 23522}

Coordinates == {[name |-> "", lat |-> lat, lon |-> lon] : lat \in LatInputs, lon \in LonInputs}

\* region_id = f"{latitude:.3f}_{longitude:.3f}", for both pairs
Derive ==
    /\ rid.pc = "called"
    /\ rid' = [rid EXCEPT !.pc = "returned",
                          !.id_a = RegionId(rid.a.lat, rid.a.lon),
                          !.id_b = RegionId(rid.b.lat, rid.b.lon)]
    /\ UNCHANGED <<clock, store, imagery, pc, run, prev, nruns, nticks, nfaults, mm, agg, qa,
                   par, pipe, bot>>

InitRegion ==
    /\ clock = ToOrdinal(StartDate)
    /\ store = <<>>
    /\ imagery = <<>>
    /\ pc = "idle"
    /\ run = NoRun
    /\ prev = NoRun
    /\ nruns = 0
    /\ nticks = 0
    /\ nfaults = 0
    /\ mm = NoLoop
    /\ agg = NoCall
    /\ qa = NoAssess
    /\ par = NoPar
    /\ pipe = NoPipe
    /\ bot = NoBot
    /\ \E a \in Coordinates, b \in Coordinates :
         rid = [NoDerive EXCEPT !.pc = "called", !.a = a, !.b = b]

NextRegion == Derive

SpecRegion == InitRegion /\ [][NextRegion]_vars

(***************************************************************************)
(* Properties of the region id                                             *)
(***************************************************************************)
\* x (in units of 0.0001) rounded to 3 decimals, as a number of thousandths
Round3(x) == CHOOSE k \in (0 - Abs(x))..Abs(x) : 2 * Abs(10 * k - x) < 10

\* C21: two coordinate pairs whose latitudes round to the same 3-decimal
\* value, and whose longitudes do, get the same region_id
C21_SameRoundingSameRegionId ==
    (/\ rid.pc = "returned"
     /\ Round3(rid.a.lat) = Round3(rid.b.lat)
     /\ Round3(rid.a.lon) = Round3(rid.b.lon))
    => rid.id_a = rid.id_b

(***************************************************************************)
(* Collect runs of two regions in progress at once.  A run's working set   *)
(* is local to its call: pc and run hold the working set of the call that  *)
(* is executing, par.saved those of the calls that are waiting, and the    *)
(* executing call changes between any two external calls.                  *)
(***************************************************************************)
ParLocations ==
    Locations \cup { [name |-> "Lyon", lat |-> 457640, lon |-> 48357] }

\* a call that has not started
Waiting(loc) == [loc |-> loc, pc |-> "idle", run |-> NoRun, prev |-> NoRun]

\* the executing call starts a run for its region
ParStart == CollectStart(par.cur)

\* the call for region name n goes on executing; the one that was is waiting
Switch(n) ==
    /\ n \in DOMAIN par.saved
    /\ pc' = par.saved[n].pc
    /\ run' = par.saved[n].run
    /\ prev' = par.saved[n].prev
    /\ par' = [cur   |-> par.saved[n].loc,
               saved |-> [m \in (DOMAIN par.saved \ {n}) \cup {par.cur.name} |->
                            IF m = par.cur.name
                            THEN [loc |-> par.cur, pc |-> pc, run |-> run, prev |-> prev]
                            ELSE par.saved[m]]]
    /\ UNCHANGED <<clock, store, imagery, nruns, nticks, nfaults, mm, agg, qa, rid, pipe, bot>>

InitPar ==
    /\ clock = ToOrdinal(StartDate)
    /\ store = <<>>
    /\ imagery = <<>>
    /\ pc = "idle"
    /\ run = NoRun
    /\ prev = NoRun
    /\ nruns = 0
    /\ nticks = 0
    /\ nfaults = MaxFaults              \* no external call fails in these behaviours
    /\ mm = NoLoop
    /\ agg = NoCall
    /\ qa = NoAssess
    /\ rid = NoDerive
    /\ pipe = NoPipe
    /\ bot = NoBot
    /\ \E loc \in ParLocations :
         par = [cur   |-> loc,
                saved |-> [n \in {l.name : l \in ParLocations \ {loc}} |->
                             Waiting(CHOOSE l \in ParLocations : l.name = n)]]

NextPar ==
    \/ ParStart
    \/ Aggregate
    \/ Upload
    \/ \E n \in DOMAIN par.saved : Switch(n)

SpecPar == InitPar /\ [][NextPar]_vars

(***************************************************************************)
(* Properties of runs in progress at once                                  *)
(***************************************************************************)
\* the working sets of all calls, each with the region it was called for
WorkingSets ==
    {[loc |-> par.cur, run |-> run]}
        \cup {[loc |-> par.saved[n].loc, run |-> par.saved[n].run] : n \in DOMAIN par.saved}

\* C23: a step changes the store only by appending to it, and the rows a
\* step appends carry the region_id of the call that is executing
C23_StoreOnlyAppendedTo ==
    [][ /\ IsPrefix(store, store')
        /\ \A i \in (Len(store) + 1)..Len(store') :
              /\ store'[i].region_id = RegionId(par.cur.lat, par.cur.lon)
              /\ store'[i].region_name = par.cur.name ]_vars

\* both regions have rows in the store, and the rows appended first are
\* still there, before the other region's
C23_Witness ==
    /\ run.outcome = "uploaded"
    /\ \E n \in DOMAIN par.saved : par.saved[n].run.outcome = "uploaded"
    /\ store[1].region_id # run.region_id
    /\ store[Len(store)].region_id = run.region_id
    /\ Len(store) >= 4

\* what is compared of a record or row
Core(row) == <<row.acquisition_month, row.image_count, row.image_ids, row.ndvi_mean>>

\* the records a run of r's region has after its calls so far when nothing
\* else runs: those of the aggregator on the region's archive, window by
\* window
RECURSIVE SoloCores(_, _)
SoloCores(r, k) ==
    IF k = 0 THEN <<>>
    ELSE LET w   == r.plan[k]
             rec == _get_monthly_averaged_data(
                        Answer(imagery[Archive(r.loc, w)], "none"),
                        w.month_start, w.month_end, [mean |-> 0, std |-> 0, cloud |-> 0])
         IN  SoloCores(r, k - 1) \o [i \in 1..Len(rec) |-> Core(rec[i])]

\* C24: every run, whatever ran in between its calls, has the plan and the
\* records of a run of its region alone on the rows of its region, appends
\* exactly its records, all under its own region, and the rows of its region
\* end with them
C24_InterleavedRunsAreIsolated ==
    \A ws \in WorkingSets :
        LET r      == ws.run
            own    == OwnRows(store, r.region_id)
            before == SubSeq(own, 1, Len(own) - Len(r.appended))
            latest == MaxMonth(before, r.region_id)
        IN  r.status # "none" =>
              /\ r.loc = ws.loc
              /\ r.region_id = RegionId(ws.loc.lat, ws.loc.lon)
              /\ r.latest_month = latest
              /\ r.plan = IF latest = NoneStr
                          THEN BootstrapWindows(FromOrdinal(r.day))
                          ELSE GapWindows(_get_missing_months(latest, CurrentMonth(r)))
              /\ [i \in 1..Len(r.monthly_data) |-> Core(r.monthly_data[i])]
                    = SoloCores(r, Len(r.attempts))
              /\ Len(r.appended) <= Len(own)
              /\ SubSeq(own, Len(own) - Len(r.appended) + 1, Len(own)) = r.appended
              /\ r.outcome = "uploaded" => r.appended = r.monthly_data
              /\ \A row \in Rows(r.monthly_data) :
                    "region_id" \in DOMAIN row =>
                        (row.region_id = r.region_id /\ row.region_name = ws.loc.name)

\* both runs are in the middle of their month loops, each with records
C24_Witness ==
    /\ run.status = "running"
    /\ run.monthly_data # <<>>
    /\ Len(run.attempts) < Len(run.plan)
    /\ \E n \in DOMAIN par.saved :
          LET r == par.saved[n].run
          IN  /\ r.status = "running"
              /\ r.monthly_data # <<>>
              /\ Len(r.attempts) < Len(r.plan)
              /\ r.region_id # run.region_id

(***************************************************************************)
(* IntegrationPipeline.analyze_user_location                               *)
(* (src/services/integration_pipeline.py) with should_collect_data         *)
(* (src/services/data_checker.py): the pipeline decides whether to call    *)
(* collect_satellite_data, whose run then goes as above                    *)
(***************************************************************************)
\* personalizer.get_user_locations(user_id): the user's saved locations, by
\* the name the user gave them
PersonalLocations ==
    [n \in {"home"} |-> CHOOSE loc \in Locations : loc.name = "Paris"]

\* the names a user asks an analysis for
LocationNames == {"home", "cabin"}

\* SELECT COUNT(*) ... WHERE region_name = @region_name
RecordCount(table, region_name) ==
    Cardinality({i \in 1..Len(table) : table[i].region_name = region_name})

\* a check that asks for more than 3 records
ShouldCollectUpToThree(table, region_name, count_ok) ==
    IF ~count_ok THEN TRUE
    ELSE RecordCount(table, region_name) <= 3

\* should_collect_data(region_name)
should_collect_data(table, region_name, count_ok) ==
    IF ~count_ok THEN TRUE                      \* except Exception: return True
    ELSE RecordCount(table, region_name) < 3

\* analyze_user_location(user_id, location_name) up to the call of
\* collect_satellite_data, or to its return when it makes none
Analyze(location_name) ==
    /\ pipe.pc \in {"idle", "returned"}
    /\ pc \in {"idle", "done"}
    /\ pipe.n < MaxRuns
    /\ LET called == [NoPipe EXCEPT !.n = pipe.n + 1, !.location_name = location_name,
                                    !.day = clock, !.rows0 = Len(store), !.nruns0 = nruns]
       IN  IF location_name \notin DOMAIN PersonalLocations
           THEN /\ pipe' = [called EXCEPT !.pc = "returned", !.error = "location_not_found"]
                /\ UNCHANGED nfaults
           ELSE \E count_ok \in CallOutcomes :
                  LET location_data    == PersonalLocations[location_name]
                      needs_collection == should_collect_data(store, location_data.name, count_ok)
                      result == [called EXCEPT !.loc = location_data, !.count_ok = count_ok,
                                               !.success = TRUE,
                                               !.needs_collection = needs_collection]
                  IN  /\ nfaults' = nfaults + Failed(count_ok)
                      /\ pipe' = IF needs_collection
                                 THEN [result EXCEPT !.pc = "collect"]
                                 ELSE [result EXCEPT !.pc = "returned",
                                                     !.collection_status = "not_needed"]
    /\ UNCHANGED <<clock, store, imagery, pc, run, prev, nruns, nticks, mm, agg, qa, rid, par, bot>>

\* collection_success = collect_satellite_data(region_name, lat, lon): the call
PipeCollect ==
    /\ pipe.pc = "collect"
    /\ nruns = pipe.nruns0
    /\ CollectStart(pipe.loc)

\* collect_satellite_data has returned: collection_status, and the rest of
\* the analysis
PipeReturn ==
    /\ pipe.pc = "collect"
    /\ nruns = pipe.nruns0 + 1
    /\ pc = "done"
    /\ pipe' = [pipe EXCEPT !.pc = "returned",
                            !.collection_status = IF run.result THEN "success" ELSE "failed"]
    /\ UNCHANGED <<clock, store, imagery, pc, run, prev, nruns, nticks, nfaults, mm, agg, qa,
                   rid, par, bot>>

\* time passes between two analyses
PipeTick ==
    /\ pipe.pc \in {"idle", "returned"}
    /\ Tick

InitPipe ==
    /\ clock = ToOrdinal(StartDate)
    /\ store = <<>>
    /\ imagery = <<>>
    /\ pc = "idle"
    /\ run = NoRun
    /\ prev = NoRun
    /\ nruns = 0
    /\ nticks = 0
    /\ nfaults = 0
    /\ mm = NoLoop
    /\ agg = NoCall
    /\ qa = NoAssess
    /\ rid = NoDerive
    /\ par = NoPar
    /\ pipe = NoPipe
    /\ bot = NoBot

NextPipe ==
    \/ \E location_name \in LocationNames : Analyze(location_name)
    \/ PipeCollect
    \/ Aggregate
    \/ Upload
    \/ PipeReturn
    \/ PipeTick

SpecPipe == InitPipe /\ [][NextPipe]_vars

(***************************************************************************)
(* Properties of the pipeline                                              *)
(***************************************************************************)
\* the table as it was when the analysis began
TableAtCall == SubSeq(store, 1, pipe.rows0)

\* the analysis found the location among the user's saved ones
Analyzing == pipe.n > 0 /\ pipe.error # "location_not_found"

\* C27: an analysis calls collect_satellite_data exactly when fewer than 3
\* rows have the location's region_name or the count query fails; when it
\* makes no call its collection_status is 'not_needed' and the table is as
\* it was; after a call the status is 'success' when the run returned True
\* and 'failed' when it returned False
C27_CollectsExactlyWhenNeeded ==
    Analyzing =>
        LET few == Len(SelectSeq(TableAtCall,
                                 LAMBDA row : row.region_name = pipe.loc.name)) < 3
        IN  /\ pipe.needs_collection <=> (~pipe.count_ok \/ few)
            /\ ~pipe.needs_collection =>
                  /\ pipe.pc = "returned"
                  /\ pipe.collection_status = "not_needed"
                  /\ nruns = pipe.nruns0
                  /\ Len(store) = pipe.rows0
            /\ (pipe.needs_collection /\ pipe.pc = "returned") =>
                  /\ nruns = pipe.nruns0 + 1
                  /\ Finished(run)
                  /\ run.loc = pipe.loc
                  /\ run.day = pipe.day
                  /\ pipe.collection_status = IF run.result THEN "success" ELSE "failed"
                  /\ Len(store) = pipe.rows0 + Len(run.appended)
            /\ pipe.pc = "collect" => (pipe.needs_collection /\ nruns <= pipe.nruns0 + 1)

\* a second analysis finds three rows or more and makes no call, after a
\* first one that collected them
C27_Witness ==
    /\ pipe.n = 2
    /\ pipe.pc = "returned"
    /\ pipe.count_ok
    /\ pipe.collection_status = "not_needed"
    /\ RecordCount(store, pipe.loc.name) = 3
    /\ run.outcome = "uploaded"
    /\ nruns = 1

\* C28: an analysis for a saved location whose region has no row for the
\* current month calls collect_satellite_data
C28_GapAlwaysTriggersCollector ==
    (/\ Analyzing
     /\ \A row \in Rows(TableAtCall) :
           RowKey(row) # <<RegionId(pipe.loc.lat, pipe.loc.lon), StrfYm(FromOrdinal(pipe.day))>>)
    => pipe.needs_collection

(***************************************************************************)
(* The chat bot (src/bot.py, src/handlers, src/services/user_sessions.py,  *)
(* src/services/user_personalization.py): one user's entry of the          *)
(* dictionary user_sessions and the handlers that read and write it.       *)
(* Coordinates are in units of 0.0001 degree, dates are day numbers, and a *)
(* pictograph at the head of a button's text is written as one letter.     *)
(***************************************************************************)
\* key in session / session[key] = value / del session[key]
HasKey(session, key) == key \in session.keys

SetKey(session, key, value) ==
    [session EXCEPT !.exists = TRUE, !.keys = @ \cup {key}, ![key] = value]

DelKey(session, key) == [session EXCEPT !.keys = @ \ {key}, ![key] = NoSession[key]]

\* bool(session): None and the empty dictionary are false
Truthy(session) == session.exists /\ session.keys # {}

\* user_sessions[user_id] = {"mode": mode}
init_mode_session(session, mode) == SetKey(NoSession, "mode", mode)

init_user_session(session, sensor) == SetKey(session, "sensor", sensor)

update_user_session(session, lat, lon, sensor, current_date) ==
    SetKey(SetKey(SetKey(SetKey(session, "lat", lat), "lon", lon), "sensor", sensor),
           "current_date", current_date)

\* check_and_update_session: the session afterwards, the value returned ("" is
\* None) and the exception raised: session["sensor"] of a session without
\* the key is a KeyError, after lat and lon were written
check_and_update_session(session, lat, lon) ==
    IF Truthy(session)
    THEN LET written == SetKey(SetKey(session, "lat", lat), "lon", lon)
         IN  IF HasKey(session, "sensor")
             THEN [session |-> written, sensor |-> session.sensor, raised |-> ""]
             ELSE [session |-> written, sensor |-> "", raised |-> "KeyError"]
    ELSE [session |-> session, sensor |-> "", raised |-> ""]

init_timetravelling_location(session, lat, lon) ==
    IF ~Truthy(session)
    THEN [session |-> session, raised |-> "ValueError"]
    ELSE [session |-> SetKey(SetKey(session, "lat", lat), "lon", lon), raised |-> ""]

\* personal_locations is a dictionary by name: a set of entries with
\* distinct names
LocationKeys(locations) == {l.name : l \in locations}

Entry(locations, name) == CHOOSE l \in locations : l.name = name

Put(locations, name, data) ==
    {l \in locations : l.name # name} \cup {[data EXCEPT !.name = name]}

Drop(locations, name) == {l \in locations : l.name # name}

get_user_locations(session) ==
    IF HasKey(session, "personal_locations") THEN session.personal_locations ELSE {}

\* add_user_location: location_info is what get_location_info returned for
\* the coordinates; the session afterwards and the value returned
add_user_location(session, location_name, location_info) ==
    LET s1 == IF HasKey(session, "personal_locations") THEN session
              ELSE SetKey(session, "personal_locations", {})
    IN  [session |-> [s1 EXCEPT !.personal_locations =
                         Put(@, location_name,
                             [name |-> location_name, user_name |-> location_name,
                              lat |-> location_info.lat, lon |-> location_info.lon,
                              is_city |-> location_info.is_city])],
         result |-> TRUE]

remove_user_location(session, location_name) ==
    IF HasKey(session, "personal_locations")
       /\ location_name \in LocationKeys(session.personal_locations)
    THEN [session |-> [session EXCEPT !.personal_locations = Drop(@, location_name)],
          result |-> TRUE]
    ELSE [session |-> session, result |-> FALSE]

\* rename_user_location: the entry is stored under the new name, then the
\* old name is deleted
rename_user_location(session, old_name, new_name) ==
    LET locations == get_user_locations(session)
    IN  IF old_name \in LocationKeys(locations)
        THEN LET location_data == [Entry(locations, old_name) EXCEPT !.user_name = new_name]
                 added == Put(session.personal_locations, new_name, location_data)
             IN  [session |-> [session EXCEPT !.personal_locations = Drop(added, old_name)],
                  result |-> TRUE]
        ELSE [session |-> session, result |-> FALSE]

(***************************************************************************)
(* Updates: a text message, a shared location or a pressed inline button.  *)
(***************************************************************************)
TextMessage(text) == [kind |-> "text", text |-> text, lat |-> 0, lon |-> 0, data |-> ""]

LocationMessage(point) ==
    [kind |-> "location", text |-> "", lat |-> point.lat, lon |-> point.lon, data |-> ""]

CallbackQuery(data) == [kind |-> "callback", text |-> "", lat |-> 0, lon |-> 0, data |-> data]

\* the texts of the buttons and commands
ShowMeText == "M Show me!"
TimeTravellingText == "T Time travelling"
SensorTexts == {"Sentinel 2 (EU - ESA)", "Landsat 8 (US - NASA)", "Landsat 9 (US - NASA)"}
ChooseOnMapText == "M Choose Location on Map"
CancelMapText == "X Cancel Location Selection"
EnterManuallyText == "N Enter Coordinates Manually"
CancelText == "X Cancel"
RemovalPrefix == "D  "

\* message.text.split('(')[0].strip() of a sensor button
SensorOf(text) ==
    CASE text = "Sentinel 2 (EU - ESA)" -> "Sentinel 2"
      [] text = "Landsat 8 (US - NASA)" -> "Landsat 8"
      [] text = "Landsat 9 (US - NASA)" -> "Landsat 9"

\* the texts that match ^-?\d+(\.\d+)?\s*,\s*-?\d+(\.\d+)?$ and the floats
\* they are parsed to
CoordinateTexts == {"52.5200, 13.4050"}

ParseCoordinates(text) ==
    CASE text = "52.5200, 13.4050" -> [lat |-> 525200, lon |-> 134050]

\* the names a user types in the dialogues; the last has 51 characters
TypedNames ==
    {"Home", "Work", "H", "012345678901234567890123456789012345678901234567890"}

\* message.text[3:] of a text that starts with the removal prefix
StartsWithRemovalPrefix(text) == \E name \in TypedNames : text = RemovalPrefix \o name

AfterRemovalPrefix(text) == CHOOSE name \in TypedNames : text = RemovalPrefix \o name

\* Command(name) matches
IsCommand(m, name) == m.kind = "text" /\ m.text = "/" \o name

\* user_sessions[user_id].get('adding_location', {}).get('step'): "" is None
AddingStep(session) ==
    IF session.exists /\ HasKey(session, "adding_location")
    THEN session.adding_location.step ELSE ""

\* get_user_session(user_id).get("mode"): "" is None
ModeOf(session) == IF HasKey(session, "mode") THEN session.mode ELSE ""

(***************************************************************************)
(* The dispatcher: the routers in the order bot.py includes them, the      *)
(* handlers of a router in the order they are registered; the first        *)
(* handler whose filters all pass handles the update.  A filter is         *)
(* evaluated only when the filters before it passed; a filter that raises  *)
(* ends the dispatch ("filter_error"), and an update no handler takes is   *)
(* "unhandled".                                                            *)
(***************************************************************************)
DispatchMessage(session, m) ==
    LET text     == m.kind = "text"
        location == m.kind = "location"
        coords   == text /\ m.text \in CoordinateTexts
        step     == AddingStep(session)
    IN  \* start_showme
        IF text /\ m.text = "/start" THEN "send_welcome"
        ELSE IF text /\ m.text = "H Main Menu" THEN "back_main"
        ELSE IF text /\ m.text = ShowMeText THEN "show_me_handler"
        \* sensor_choice_showme
        ELSE IF text /\ m.text \in SensorTexts THEN "sensor_choice"
        ELSE IF text /\ m.text = "B Change Satellite" THEN "change_satellite"
        \* get_location_showme: get_user_session(...) is None without a session
        ELSE IF (location \/ coords) /\ ~session.exists THEN "filter_error"
        ELSE IF location /\ ModeOf(session) = "showme" THEN "handle_location"
        ELSE IF coords /\ ModeOf(session) = "showme" THEN "handle_text_coordinates"
        \* start_timetravelling
        ELSE IF text /\ m.text = TimeTravellingText THEN "start_time_travelling"
        \* get_location_timetravelling
        ELSE IF location /\ ModeOf(session) = "timetravelling"
             THEN "handle_location_timetravelling"
        ELSE IF coords /\ ModeOf(session) = "timetravelling"
             THEN "handle_text_coordinates_timetravelling"
        \* personalized_locations
        ELSE IF IsCommand(m, "add_location") THEN "start_add_location"
        ELSE IF text /\ step = "name" THEN "handle_location_name"
        ELSE IF location /\ step \in {"coordinates", "map_selection"}
             THEN "handle_location_coordinates"
        ELSE IF text /\ m.text = ChooseOnMapText /\ step = "coordinates"
             THEN "request_map_location"
        ELSE IF text /\ m.text = CancelMapText THEN "cancel_map_selection"
        ELSE IF text /\ m.text = EnterManuallyText /\ step = "coordinates"
             THEN "request_manual_coordinates"
        ELSE IF coords /\ step = "manual_coords" THEN "handle_manual_coordinates"
        ELSE IF text /\ m.text = CancelText THEN "cancel_add_location"
        ELSE IF IsCommand(m, "my_locations") THEN "show_user_locations"
        ELSE IF IsCommand(m, "remove_location") THEN "start_remove_location"
        ELSE IF text /\ StartsWithRemovalPrefix(m.text)
                /\ HasKey(session, "removing_location") /\ session.removing_location
             THEN "handle_location_removal"
        ELSE "unhandled"

DispatchCallback(session, m) ==
    IF m.data \in {"nav_universal:previous", "nav_universal:next", "nav_universal:latest"}
    THEN "navigate_universal_callback_handler"
    ELSE IF m.data = "request_location" THEN "handle_location_request_callback"
    ELSE "unhandled"

Dispatch(session, m) ==
    IF m.kind = "callback" THEN DispatchCallback(session, m) ELSE DispatchMessage(session, m)

(***************************************************************************)
(* The image lookup and the handlers.  A handler is given the session and  *)
(* the update and yields the session it leaves and what it did: the reply  *)
(* it sent, the exception it let out (fault), whether it called the image  *)
(* lookup (fetch), and the name and result of a personal-location call.    *)
(* Calls of the Telegram API are taken to succeed.                         *)
(***************************************************************************)
\* the days the image collection can hold an image of
ImageDays == {1, 2, 3}

\* what the collection holds at a call, and whether Earth Engine answers
Archives == [ok : BOOLEAN, days : SUBSET ImageDays]

SetMax(S) == CHOOSE x \in S : \A y \in S : y <= x
SetMin(S) == CHOOSE x \in S : \A y \in S : x <= y

\* get_image_by_date(sensor, lat, lon, current_date_str, direction):
\* current_date 0 is None; "raise" an exception, "none" (None, None, None)
get_image_by_date(sensor, current_date, direction, archive) ==
    IF sensor \notin {"Sentinel 2", "Landsat 8", "Landsat 9"}
    THEN [kind |-> "none", date |-> 0]
    ELSE IF current_date # 0 /\ direction \notin {"latest", "previous", "next"}
    THEN [kind |-> "raise", date |-> 0]                  \* ValueError
    ELSE IF ~archive.ok THEN [kind |-> "raise", date |-> 0]
    ELSE LET filtered ==
                 IF current_date = 0 \/ direction = "latest" THEN archive.days
                 ELSE IF direction = "previous"
                      THEN {d \in archive.days : d < current_date}
                      ELSE {d \in archive.days : d > current_date}
         IN  IF filtered = {} THEN [kind |-> "none", date |-> 0]
             ELSE IF direction = "next" /\ current_date # 0
                  THEN [kind |-> "found", date |-> SetMin(filtered)]
                  ELSE [kind |-> "found", date |-> SetMax(filtered)]

\* what get_location_info can return for coordinates: the coordinates
\* themselves, or the nearest city's
CityCentre == [lat |-> 525170, lon |-> 133889]

LocationInfos(lat, lon) ==
    {[lat |-> lat, lon |-> lon, is_city |-> FALSE],
     [lat |-> CityCentre.lat, lon |-> CityCentre.lon, is_city |-> TRUE]}

Done(session, handler, reply) ==
    [session |-> session, handler |-> handler, reply |-> reply, fault |-> "",
     fetch |-> FALSE, call |-> "", result |-> FALSE, arg |-> <<>>]

Faulted(session, handler, fault) ==
    [Done(session, handler, "") EXCEPT !.fault = fault]

\* start_showme.py
show_me_handler(session, m) ==
    Done(init_mode_session(session, "showme"), "show_me_handler",
         "Please select the desired satellite")

\* sensor_choice_showme.py
sensor_choice(session, m) ==
    Done(init_user_session(session, SensorOf(m.text)), "sensor_choice", "You've selected")

\* get_location_showme.py: the body both handlers share, from
\* check_and_update_session on
ShowImage(session, handler, lat, lon, archive, http_ok) ==
    LET checked == check_and_update_session(session, lat, lon)
    IN  IF checked.raised # "" THEN Faulted(checked.session, handler, checked.raised)
        ELSE IF checked.sensor = ""
        THEN Done(checked.session, handler, "No satellite selected")
        ELSE LET image == get_image_by_date(checked.sensor, 0, "latest", archive)
             IN  IF image.kind = "raise"
                 THEN [Faulted(checked.session, handler, "Exception") EXCEPT !.fetch = TRUE]
                 ELSE IF image.kind = "none"
                 THEN [Done(checked.session, handler, "Couldn't fetch image")
                          EXCEPT !.fetch = TRUE]
                 ELSE LET updated == update_user_session(checked.session, lat, lon,
                                                         checked.sensor, image.date)
                      IN  IF http_ok
                          THEN [Done(updated, handler, "photo") EXCEPT !.fetch = TRUE]
                          ELSE [Faulted(updated, handler, "RequestException")
                                   EXCEPT !.fetch = TRUE]

handle_location(session, m, archive, http_ok) ==
    ShowImage(session, "handle_location", m.lat, m.lon, archive, http_ok)

\* the same inside try / except Exception: the exception becomes a reply
handle_text_coordinates(session, m, archive, http_ok) ==
    LET point == ParseCoordinates(m.text)
        tried == ShowImage(session, "handle_text_coordinates", point.lat, point.lon,
                           archive, http_ok)
    IN  IF tried.fault # ""
        THEN [tried EXCEPT !.fault = "", !.reply = "Invalid coordinates format"]
        ELSE tried

\* start_timetravelling.py
start_time_travelling(session, m) ==
    Done(init_mode_session(session, "timetravelling"), "start_time_travelling",
         "Welcome to Time travelling mode")

\* get_location_timetravelling.py
handle_location_timetravelling(session, m) ==
    IF ~Truthy(session) \/ ModeOf(session) # "timetravelling"
    THEN Done(session, "handle_location_timetravelling", "")
    ELSE LET saved == init_timetravelling_location(session, m.lat, m.lon)
         IN  IF saved.raised # ""
             THEN Faulted(saved.session, "handle_location_timetravelling", saved.raised)
             ELSE Done(saved.session, "handle_location_timetravelling", "Location received")

handle_text_coordinates_timetravelling(session, m) ==
    IF ~Truthy(session) \/ ModeOf(session) # "timetravelling"
    THEN Done(session, "handle_text_coordinates_timetravelling", "")
    ELSE LET point == ParseCoordinates(m.text)
             saved == init_timetravelling_location(session, point.lat, point.lon)
         IN  IF saved.raised # ""
             THEN Done(saved.session, "handle_text_coordinates_timetravelling",
                       "Invalid format")
             ELSE Done(saved.session, "handle_text_coordinates_timetravelling",
                       "Coordinates received")

\* personalized_locations.py
start_add_location(session, m) ==
    Done(SetKey(session, "adding_location", [keys |-> {"step"}, step |-> "name", name |-> ""]),
         "start_add_location", "Let's add a personal location")

\* message.text.strip(): the texts of the model have no blanks at their ends
handle_location_name(session, m) ==
    LET location_name == m.text
    IN  IF Len(location_name) < 2
        THEN Done(session, "handle_location_name", "Please provide a name")
        ELSE IF Len(location_name) > 50
        THEN Done(session, "handle_location_name", "Please use a shorter name")
        ELSE IF location_name \in LocationKeys(get_user_locations(session))
        THEN Done(session, "handle_location_name", "You already have a location")
        ELSE Done([session EXCEPT !.adding_location =
                      [keys |-> {"step", "name"}, step |-> "coordinates",
                       name |-> location_name]],
                  "handle_location_name", "Now, how would you like to set the location")

\* add_location_interactive and the clean-up of the session that follows it
AddAndCleanUp(session, handler, location_info) ==
    LET location_name == session.adding_location.name
        added == add_user_location(session, location_name, location_info)
    IN  [Done(DelKey(added.session, "adding_location"), handler,
              IF added.result THEN "Added" ELSE "Failed to add location")
            EXCEPT !.call = "add_user_location", !.result = added.result,
                   !.arg = <<location_name>>]

handle_location_coordinates(session, m, location_info) ==
    IF "name" \notin session.adding_location.keys
    THEN Faulted(session, "handle_location_coordinates", "KeyError")
    ELSE AddAndCleanUp(session, "handle_location_coordinates", location_info)

request_map_location(session, m) ==
    Done([session EXCEPT !.adding_location.step = "map_selection"],
         "request_map_location", "Pick Location from Map")

cancel_map_selection(session, m) ==
    Done(IF session.exists /\ HasKey(session, "adding_location")
         THEN [session EXCEPT !.adding_location.step = "coordinates"]
         ELSE session,
         "cancel_map_selection", "Back to location selection options")

request_manual_coordinates(session, m) ==
    Done([session EXCEPT !.adding_location.step = "manual_coords"],
         "request_manual_coordinates", "Please enter coordinates")

\* inside try / except Exception
handle_manual_coordinates(session, m, location_info) ==
    IF "name" \notin session.adding_location.keys
    THEN Done(session, "handle_manual_coordinates", "Invalid format")
    ELSE AddAndCleanUp(session, "handle_manual_coordinates", location_info)

cancel_add_location(session, m) ==
    Done(IF session.exists /\ HasKey(session, "adding_location")
         THEN DelKey(session, "adding_location")
         ELSE session,
         "cancel_add_location", "Location addition cancelled")

start_remove_location(session, m) ==
    IF get_user_locations(session) = {}
    THEN Done(session, "start_remove_location", "You don't have any personal locations")
    ELSE Done(SetKey(session, "removing_location", TRUE), "start_remove_location",
              "Which location would you like to remove")

handle_location_removal(session, m) ==
    LET location_name == AfterRemovalPrefix(m.text)
        removed == remove_user_location(session, location_name)
    IN  [Done(SetKey(removed.session, "removing_location", FALSE), "handle_location_removal",
              IF removed.result THEN "Removed" ELSE "Failed to remove")
            EXCEPT !.call = "remove_user_location", !.result = removed.result,
                   !.arg = <<location_name>>]

\* the handlers that only answer
Answers(session, handler) == Done(session, handler, "answer")

\* the handler the dispatcher chose, run on the update
Handle(handler, session, m, archive, http_ok, location_info) ==
    CASE handler = "show_me_handler" -> show_me_handler(session, m)
      [] handler = "sensor_choice" -> sensor_choice(session, m)
      [] handler = "handle_location" -> handle_location(session, m, archive, http_ok)
      [] handler = "handle_text_coordinates" ->
             handle_text_coordinates(session, m, archive, http_ok)
      [] handler = "start_time_travelling" -> start_time_travelling(session, m)
      [] handler = "handle_location_timetravelling" ->
             handle_location_timetravelling(session, m)
      [] handler = "handle_text_coordinates_timetravelling" ->
             handle_text_coordinates_timetravelling(session, m)
      [] handler = "start_add_location" -> start_add_location(session, m)
      [] handler = "handle_location_name" -> handle_location_name(session, m)
      [] handler = "handle_location_coordinates" ->
             handle_location_coordinates(session, m, location_info)
      [] handler = "request_map_location" -> request_map_location(session, m)
      [] handler = "cancel_map_selection" -> cancel_map_selection(session, m)
      [] handler = "request_manual_coordinates" -> request_manual_coordinates(session, m)
      [] handler = "handle_manual_coordinates" ->
             handle_manual_coordinates(session, m, location_info)
      [] handler = "cancel_add_location" -> cancel_add_location(session, m)
      [] handler = "start_remove_location" -> start_remove_location(session, m)
      [] handler = "handle_location_removal" -> handle_location_removal(session, m)
      [] handler = "filter_error" -> Faulted(session, "filter_error", "AttributeError")
      [] OTHER -> Answers(session, handler)

(***************************************************************************)
(* The bot as a state machine.  Every handler but the navigation callback  *)
(* writes the session before its first await, so that it is one step; the  *)
(* navigation callback reads the session, awaits the sending of its        *)
(* 'loading' message and goes on afterwards, and the updates of the polling *)
(* loop are handled as tasks of their own: other updates are handled       *)
(* between its two steps.                                                  *)
(***************************************************************************)
LastOf(m, out) ==
    [update |-> m, handler |-> out.handler, reply |-> out.reply, fault |-> out.fault,
     fetch |-> out.fetch, call |-> out.call, result |-> out.result, arg |-> out.arg]

\* the points a user shares
SharedPoints == {[lat |-> 525200, lon |-> 134050], [lat |-> 488584, lon |-> 22945]}

NavigationData == {"nav_universal:previous", "nav_universal:next", "nav_universal:latest"}

\* the updates a user sends while browsing images
BrowsingUpdates ==
    {TextMessage(text) : text \in {ShowMeText, TimeTravellingText, "Sentinel 2 (EU - ESA)",
                                    "Landsat 8 (US - NASA)"} \cup CoordinateTexts}
      \cup {LocationMessage(point) : point \in SharedPoints}
      \cup {CallbackQuery(data) : data \in NavigationData \cup {"request_location"}}

\* the updates a user sends around the dialogue that adds a location
DialogueUpdates ==
    {TextMessage(text) :
        text \in {ShowMeText, "Sentinel 2 (EU - ESA)", "/add_location", ChooseOnMapText,
                  CancelMapText, EnterManuallyText, CancelText, "/remove_location",
                  RemovalPrefix \o "Home"}
                   \cup TypedNames \cup CoordinateTexts}
      \cup {LocationMessage([lat |-> 525200, lon |-> 134050])}

\* callback_query.data.split(":")[1]
DirectionOf(data) ==
    CASE data = "nav_universal:previous" -> "previous"
      [] data = "nav_universal:next" -> "next"
      [] data = "nav_universal:latest" -> "latest"

\* what the handler chosen for an update can meet outside the program: the
\* archives that make the lookup answer differently, one of each
LookupAnswers(sensor, current_date, direction) ==
    {get_image_by_date(sensor, current_date, direction, archive) : archive \in Archives}

DistinctArchives(sensor, current_date, direction) ==
    {CHOOSE archive \in Archives :
         get_image_by_date(sensor, current_date, direction, archive) = answer :
       answer \in LookupAnswers(sensor, current_date, direction)}

ArchivesFor(handler, session) ==
    IF handler \in {"handle_location", "handle_text_coordinates"}
    THEN DistinctArchives(session.sensor, 0, "latest") ELSE {[ok |-> TRUE, days |-> {}]}

HttpFor(handler) ==
    IF handler \in {"handle_location", "handle_text_coordinates"} THEN BOOLEAN ELSE {TRUE}

InfosFor(handler, m) ==
    IF handler = "handle_location_coordinates" THEN LocationInfos(m.lat, m.lon)
    ELSE IF handler = "handle_manual_coordinates"
    THEN LocationInfos(ParseCoordinates(m.text).lat, ParseCoordinates(m.text).lon)
    ELSE {[lat |-> 0, lon |-> 0, is_city |-> FALSE]}

\* an update is dispatched and handled (all handlers but the navigation callback)
Update(m) ==
    LET handler == Dispatch(bot.session, m)
    IN  /\ handler # "navigate_universal_callback_handler"
        /\ \E archive \in ArchivesFor(handler, bot.session), http_ok \in HttpFor(handler),
              location_info \in InfosFor(handler, m) :
              LET out == Handle(handler, bot.session, m, archive, http_ok, location_info)
              IN  /\ Cardinality(get_user_locations(out.session)) <= MaxLocations
                  /\ bot' = [bot EXCEPT !.session = out.session, !.last = LastOf(m, out)]
        /\ UNCHANGED <<clock, store, imagery, pc, run, prev, nruns, nticks, nfaults, mm, agg,
                       qa, rid, par, pipe>>

\* navigate_universal_callback_handler up to its first await: the session is
\* read and the 'loading' message sent
NavStart(m) ==
    /\ m.kind = "callback"
    /\ Dispatch(bot.session, m) = "navigate_universal_callback_handler"
    /\ bot.nav.pc = "idle"
    /\ LET session == bot.session
           handler == "navigate_universal_callback_handler"
       IN  IF ~Truthy(session)
           THEN bot' = [bot EXCEPT !.last = LastOf(m, Done(session, handler,
                                                       "No session data found"))]
           ELSE IF ~({"lat", "lon", "sensor", "current_date"} \subseteq session.keys)
           THEN bot' = [bot EXCEPT !.last = LastOf(m, Faulted(session, handler, "KeyError"))]
           ELSE bot' = [bot EXCEPT
                          !.nav = [pc |-> "loading", update |-> m,
                                   lat |-> session.lat, lon |-> session.lon,
                                   sensor |-> session.sensor,
                                   current_date |-> session.current_date,
                                   direction |-> DirectionOf(m.data)],
                          !.loading = @ + 1,
                          !.last = LastOf(m, Done(session, handler, "Loading satellite image"))]
    /\ UNCHANGED <<clock, store, imagery, pc, run, prev, nruns, nticks, nfaults, mm, agg,
                   qa, rid, par, pipe>>

\* the rest of the navigation callback: the lookup, the write to the session
\* and, in the finally clause, the deletion of the 'loading' message
NavFinish ==
    /\ bot.nav.pc = "loading"
    /\ \E archive \in DistinctArchives(bot.nav.sensor, bot.nav.current_date,
                                         bot.nav.direction),
          http_ok \in BOOLEAN :
         LET nav     == bot.nav
             handler == "navigate_universal_callback_handler"
             image   == get_image_by_date(nav.sensor, nav.current_date, nav.direction, archive)
             out     ==
                 IF image.kind = "raise"
                 THEN \* except: answer; then url is unbound at logging.info
                      [Faulted(bot.session, handler, "UnboundLocalError")
                          EXCEPT !.fetch = TRUE, !.reply = "No image found in this direction"]
                 ELSE IF image.kind = "none"
                 THEN [Done(bot.session, handler, "No image found in this direction")
                          EXCEPT !.fetch = TRUE]
                 ELSE IF ~http_ok
                 THEN [Faulted(bot.session, handler, "RequestException") EXCEPT !.fetch = TRUE]
                 ELSE [Done(update_user_session(bot.session, nav.lat, nav.lon, nav.sensor,
                                                image.date),
                            handler, "photo") EXCEPT !.fetch = TRUE, !.result = TRUE]
         IN  bot' = [bot EXCEPT !.session = out.session, !.nav = NoNav,
                                !.loading = @ - 1, !.last = LastOf(bot.nav.update, out)]
    /\ UNCHANGED <<clock, store, imagery, pc, run, prev, nruns, nticks, nfaults, mm, agg,
                   qa, rid, par, pipe>>

InitBot ==
    /\ clock = ToOrdinal(StartDate)
    /\ store = <<>>
    /\ imagery = <<>>
    /\ pc = "idle"
    /\ run = NoRun
    /\ prev = NoRun
    /\ nruns = 0
    /\ nticks = 0
    /\ nfaults = 0
    /\ rid = NoDerive
    /\ par = NoPar
    /\ pipe = NoPipe
    /\ mm = NoLoop
    /\ agg = NoCall
    /\ qa = NoAssess
    /\ bot = NoBot

NextBot ==
    \/ \E m \in BrowsingUpdates : Update(m)
    \/ \E m \in BrowsingUpdates : NavStart(m)
    \/ NavFinish

SpecBot == InitBot /\ [][NextBot]_vars

\* the dialogue that adds a location, among the other handlers
NextDialogue == \E m \in DialogueUpdates : Update(m)

SpecDialogue == InitBot /\ [][NextDialogue]_vars

(***************************************************************************)
(* UserPersonalization on its own: calls of add_user_location,             *)
(* remove_user_location and rename_user_location for one user              *)
(***************************************************************************)
LocationNamesTyped == {"Home", "Work", "Cabin"}

AddLocation(location_name, point) ==
    /\ \E location_info \in LocationInfos(point.lat, point.lon) :
         LET added == add_user_location(bot.session, location_name, location_info)
         IN  bot' = [bot EXCEPT !.session = added.session,
                                !.last = [NoLast EXCEPT !.call = "add_user_location",
                                                        !.result = added.result,
                                                        !.arg = <<location_name>>]]
    /\ UNCHANGED <<clock, store, imagery, pc, run, prev, nruns, nticks, nfaults, mm, agg,
                   qa, rid, par, pipe>>

RemoveLocation(location_name) ==
    /\ LET removed == remove_user_location(bot.session, location_name)
       IN  bot' = [bot EXCEPT !.session = removed.session,
                              !.last = [NoLast EXCEPT !.call = "remove_user_location",
                                                      !.result = removed.result,
                                                      !.arg = <<location_name>>]]
    /\ UNCHANGED <<clock, store, imagery, pc, run, prev, nruns, nticks, nfaults, mm, agg,
                   qa, rid, par, pipe>>

Rename(old_name, new_name) ==
    /\ LET renamed == rename_user_location(bot.session, old_name, new_name)
       IN  bot' = [bot EXCEPT !.session = renamed.session,
                              !.last = [NoLast EXCEPT !.call = "rename_user_location",
                                                      !.result = renamed.result,
                                                      !.arg = <<old_name, new_name>>]]
    /\ UNCHANGED <<clock, store, imagery, pc, run, prev, nruns, nticks, nfaults, mm, agg,
                   qa, rid, par, pipe>>

NextPersonal ==
    \/ \E location_name \in LocationNamesTyped, point \in SharedPoints :
         AddLocation(location_name, point)
    \/ \E location_name \in LocationNamesTyped : RemoveLocation(location_name)
    \/ \E old_name \in LocationNamesTyped, new_name \in LocationNamesTyped :
         Rename(old_name, new_name)

SpecPersonal == InitBot /\ [][NextPersonal]_vars

(***************************************************************************)
(* Properties of the personal locations                                    *)
(***************************************************************************)
\* C33: a call rename_user_location(user, old, new) with old present returns
\* True and leaves, under new, old's data with user_name = new, whatever new
\* is (new = old included); with old absent it returns False and the
\* session is as before
C33_RenameMovesTheEntry ==
    [][ bot'.last.call = "rename_user_location" =>
          LET old_name == bot'.last.arg[1]
              new_name == bot'.last.arg[2]
              before   == get_user_locations(bot.session)
              after    == get_user_locations(bot'.session)
          IN  IF old_name \in LocationKeys(before)
              THEN /\ bot'.last.result
                   /\ new_name \in LocationKeys(after)
                   /\ Entry(after, new_name) =
                         [Entry(before, old_name) EXCEPT !.name = new_name,
                                                         !.user_name = new_name]
              ELSE /\ ~bot'.last.result
                   /\ bot'.session = bot.session ]_vars

(***************************************************************************)
(* Properties of the handlers                                              *)
(***************************************************************************)
\* the step handles a shared location or a coordinate text
LocationHandled ==
    /\ bot'.last # bot.last
    /\ \/ bot'.last.update.kind = "location"
       \/ bot'.last.update.kind = "text" /\ bot'.last.update.text \in CoordinateTexts

\* C31: in showme mode without a sensor, a location or a coordinate text is
\* answered 'No satellite selected', the image lookup is not called and no
\* exception leaves the handler
C31_NoSensorIsAnswered ==
    [][ (ModeOf(bot.session) = "showme" /\ ~HasKey(bot.session, "sensor") /\ LocationHandled)
          => /\ bot'.last.handler \in {"handle_location", "handle_text_coordinates"}
             /\ bot'.last.reply = "No satellite selected"
             /\ ~bot'.last.fetch
             /\ bot'.last.fault = "" ]_vars

\* C32: a step that is no call of add_user_location, remove_user_location
\* or rename_user_location leaves every personal location present and as
\* it was
C32_OnlyPersonalizationChangesLocations ==
    [][ bot'.last.call \notin {"add_user_location", "remove_user_location",
                               "rename_user_location"}
          => get_user_locations(bot.session) \subseteq get_user_locations(bot'.session) ]_vars

\* the step is one of the navigation callback
NavigationStep == bot'.last.handler = "navigate_universal_callback_handler" /\ bot' # bot

\* the value of a key of the session, or that the session has not the key
Value(session, key) == IF HasKey(session, key) THEN <<session[key]>> ELSE <<>>

\* C35: a step of the navigation callback changes current_date only when
\* the lookup found an image, leaves lat, lon and sensor as they are, and
\* when the callback has ended no 'loading' message is left
C35_NavigationKeepsThePlace ==
    [][ NavigationStep =>
          /\ Value(bot'.session, "current_date") # Value(bot.session, "current_date")
                => (bot'.last.fetch /\ bot'.last.result)
          /\ \A key \in {"lat", "lon", "sensor"} :
                Value(bot'.session, key) = Value(bot.session, key)
          /\ bot'.nav.pc = "idle" => bot'.loading = 0 ]_vars

\* the steps of the dialogue at which a location is awaited
AwaitingLocation == {"coordinates", "map_selection", "manual_coords"}

\* at such a step the session holds a name of 2 to 50 characters that is no
\* name of a personal location
NameHeld ==
    AddingStep(bot.session) \in AwaitingLocation =>
        /\ "name" \in bot.session.adding_location.keys
        /\ Len(bot.session.adding_location.name) >= 2
        /\ Len(bot.session.adding_location.name) <= 50
        /\ bot.session.adding_location.name
              \notin LocationKeys(get_user_locations(bot.session))

\* the step handles a location sent at a step that awaits one, or the
\* cancel button pressed at such a step
LocationSubmitted ==
    /\ bot'.last # bot.last
    /\ \/ /\ bot'.last.update.kind = "location"
          /\ AddingStep(bot.session) \in {"coordinates", "map_selection"}
       \/ /\ bot'.last.update.kind = "text"
          /\ bot'.last.update.text \in CoordinateTexts
          /\ AddingStep(bot.session) = "manual_coords"

DialogueCancelled ==
    /\ bot'.last # bot.last
    /\ bot'.last.update.kind = "text"
    /\ bot'.last.update.text = CancelText
    /\ AddingStep(bot.session) \in AwaitingLocation

\* C34: under first-match dispatch, at the steps 'coordinates',
\* 'map_selection' and 'manual_coords' the session holds a valid new name; a
\* location is stored only at these steps and under that name; and once a
\* location was submitted at such a step, or the dialogue cancelled, the
\* session has no adding_location entry
C34_DialogueStoresUnderTheName ==
    /\ []NameHeld
    /\ [][ ~(get_user_locations(bot'.session) \subseteq get_user_locations(bot.session))
             => /\ AddingStep(bot.session) \in AwaitingLocation
                /\ bot'.last.call = "add_user_location"
                /\ \A l \in get_user_locations(bot'.session) :
                      \/ l \in get_user_locations(bot.session)
                      \/ /\ l.name = bot.session.adding_location.name
                         /\ l.user_name = l.name ]_vars
    /\ [][ (LocationSubmitted \/ DialogueCancelled)
             => ~HasKey(bot'.session, "adding_location") ]_vars

====
